---- MODULE Spec2Model ----
(***************************************************************************)
(* A model of the OpenTab toolchain (homeputers/opentab): the formatter    *)
(* (tools/formatter), the parser (tools/parser) and the MIDI encoder       *)
(* (tools/converters-midi).                                                *)
(*                                                                         *)
(* Text is modelled character by character.  A string is a sequence of     *)
(* one-character strings; a text is the sequence of its lines, that is,    *)
(* the value of `input.split(/\r?\n/)`.  Lines hold neither "\n" nor       *)
(* "\r", so split and join("\n") are inverse on the texts of the model.    *)
(*                                                                         *)
(* JavaScript numbers read from digits are kept as Int where the code      *)
(* computes with them (measure index, string, fret) and as canonical       *)
(* decimal numerals (digit sequences without leading zeros) where the code *)
(* only stores and prints them (the tuplet of a duration), so that         *)
(* Number() and String() are modelled on numbers beyond 32 bits as well.   *)
(***************************************************************************)
EXTENDS Integers, Sequences, FiniteSets, TLC

(***************************************************************************)
(* Bounds of the model.                                                    *)
(***************************************************************************)
\* longest measure content, in tokens, of the generated formatter inputs
MaxTokens == 4
\* longest body, in lines, of the parser runs
MaxLines == 5

VARIABLES
  fsrc,      \* formatter run: the input text (lines)
  fout1,     \* formatOtab(fsrc)
  fout2,     \* formatOtab(fout1)
  fdoc1,     \* parseOpenTab(fsrc)
  fdoc2,     \* parseOpenTab(fout1)
  fpc,       \* position of the formatter run
  plines,    \* parser run: the body lines read so far
  pstate,    \* the DirectiveState, the measureMap and the error thrown
  pmeasures, \* the measures of the Document returned
  ppc,       \* position of the parser run
  mdoc,      \* MIDI run: the Document encoded
  mtrack,    \* position of the track being built in document.tracks
  mmeasure,  \* position of the next measure to collect for that track
  mstart,    \* measureStart
  mnotes,    \* the note events collected for that track
  mout,      \* the tracks built
  mfile,     \* the MidiFileData written
  mpc,       \* position of the MIDI run
  dduration, \* duration run: the Duration converted
  dticks,    \* durationToTicks(dduration) of the MIDI encoder
  ddivisions, \* durationToDivisions(dduration) of the MusicXML encoder
  dpc,       \* position of the duration run
  xdoc,      \* MusicXML run: the Document encoded
  xtrack,    \* position of the track whose part is being rendered
  xmeasure,  \* position of the next measure to render for that part
  xpart,     \* the elements rendered for that part
  xparts,    \* the parts rendered
  xpc,       \* position of the MusicXML run
  adoc,      \* ASCII run: the Document encoded
  atrack,    \* position of the track being rendered
  ameasure,  \* position of the next measure to render for that track
  aout,      \* the lines of output pushed
  apc,       \* position of the ASCII run
  itext,     \* importer run: the lines of the input
  ioption,   \* opts.rhythmStrategy
  imeta,     \* parseMetadata(lines)
  iblocks,   \* detectTabBlocks(lines, warn)
  iwarnings, \* the warnings recorded so far
  ituning,   \* the tuning buildTuning returned
  ibody,     \* bodyLines
  inext,     \* position of the next block to import
  imeasure,  \* measureIndex
  iotab,     \* the text returned (lines)
  idoc,      \* parseOpenTab of the text returned
  ipc,       \* position of the importer run
  vtext,     \* validator run: the lines of the text
  vdiags,    \* the diagnostics pushed so far
  vnext,     \* position of the next line to validate
  vsaw,      \* sawTrackSelection
  vreported, \* reportedMissingTrack
  vpc,       \* position of the validator run
  htext,     \* header run: the lines of the text
  hresult,   \* parseOpenTab(htext)
  hpc        \* position of the header run

fmtVars == <<fsrc, fout1, fout2, fdoc1, fdoc2, fpc>>
parseVars == <<plines, pstate, pmeasures, ppc>>
midiVars == <<mdoc, mtrack, mmeasure, mstart, mnotes, mout, mfile, mpc>>
durVars == <<dduration, dticks, ddivisions, dpc>>
\* the runs of the formatter, the parser and the MIDI encoder, and the others
earlyVars == <<fmtVars, parseVars, midiVars>>
xmlVars == <<xdoc, xtrack, xmeasure, xpart, xparts, xpc>>
asciiVars == <<adoc, atrack, ameasure, aout, apc>>
impVars ==
  <<itext, ioption, imeta, iblocks, iwarnings, ituning, ibody, inext, imeasure,
    iotab, idoc, ipc>>
valVars == <<vtext, vdiags, vnext, vsaw, vreported, vpc>>
hdrVars == <<htext, hresult, hpc>>
\* the runs of the importer, the validator and the header
toolVars == <<impVars, valVars, hdrVars>>
encoderVars == <<durVars, xmlVars, asciiVars>>
laterVars == <<encoderVars, toolVars>>
\* the variables outside one run
restDur == <<earlyVars, xmlVars, asciiVars, toolVars>>
restXml == <<earlyVars, durVars, asciiVars, toolVars>>
restAscii == <<earlyVars, durVars, xmlVars, toolVars>>
restImp == <<earlyVars, encoderVars, valVars, hdrVars>>
restVal == <<earlyVars, encoderVars, impVars, hdrVars>>
restHdr == <<earlyVars, encoderVars, impVars, valVars>>
vars ==
  <<fsrc, fout1, fout2, fdoc1, fdoc2, fpc, plines, pstate, pmeasures, ppc,
    mdoc, mtrack, mmeasure, mstart, mnotes, mout, mfile, mpc, laterVars>>

(***************************************************************************)
(* Strings.                                                                *)
(***************************************************************************)
Max(a, b) == IF a >= b THEN a ELSE b
Min(a, b) == IF a <= b THEN a ELSE b

\* /\s/ on the characters of the model
IsSpace(c) == c \in {" ", "\t"}
IsDigit(c) == c \in {"0", "1", "2", "3", "4", "5", "6", "7", "8", "9"}
IsOpener(c) == c \in {"[", "(", "{"}
IsCloser(c) == c \in {"]", ")", "}"}

Slice(s, from, to) == IF from > to THEN <<>> ELSE SubSeq(s, from, to)
DropFirst(s, n) == Slice(s, n + 1, Len(s))

RECURSIVE TrimEnd(_)
TrimEnd(s) ==
  IF s # <<>> /\ IsSpace(s[Len(s)]) THEN TrimEnd(Slice(s, 1, Len(s) - 1)) ELSE s

RECURSIVE TrimStart(_)
TrimStart(s) ==
  IF s # <<>> /\ IsSpace(s[1]) THEN TrimStart(Tail(s)) ELSE s

Trim(s) == TrimStart(TrimEnd(s))

StartsWith(s, p) == Len(s) >= Len(p) /\ Slice(s, 1, Len(p)) = p
EndsWith(s, p) == Len(s) >= Len(p) /\ Slice(s, Len(s) - Len(p) + 1, Len(s)) = p

\* String.prototype.indexOf for one character; 0 when absent (JS: -1)
IndexOf(s, c) ==
  IF \E i \in 1..Len(s) : s[i] = c
  THEN CHOOSE i \in 1..Len(s) : s[i] = c /\ \A j \in 1..(i - 1) : s[j] # c
  ELSE 0

\* length of the longest prefix of digits: /^(\d+)/
RECURSIVE DigitRun(_)
DigitRun(s) == IF s # <<>> /\ IsDigit(s[1]) THEN 1 + DigitRun(Tail(s)) ELSE 0

RECURSIVE Concat(_)
Concat(ss) == IF ss = <<>> THEN <<>> ELSE Head(ss) \o Concat(Tail(ss))

\* Array.prototype.join
RECURSIVE Join(_, _)
Join(ss, sep) ==
  IF ss = <<>> THEN <<>>
  ELSE IF Len(ss) = 1 THEN ss[1]
  ELSE ss[1] \o sep \o Join(Tail(ss), sep)

Map1(f(_), s) == [i \in 1..Len(s) |-> f(s[i])]

(***************************************************************************)
(* JavaScript numbers as numerals.                                         *)
(***************************************************************************)
\* Number("<digits>"): the canonical numeral.  Exact for the numerals of the
\* model (at most 15 significant digits, or a power of ten up to 10^22).
RECURSIVE StripLeadingZeros(_)
StripLeadingZeros(d) ==
  IF Len(d) > 1 /\ d[1] = "0" THEN StripLeadingZeros(Tail(d)) ELSE d

RECURSIVE StripTrailingZeros(_)
StripTrailingZeros(d) ==
  IF Len(d) > 1 /\ d[Len(d)] = "0"
  THEN StripTrailingZeros(Slice(d, 1, Len(d) - 1)) ELSE d

NumberOfDigits(d) == StripLeadingZeros(d)

DigitChar(n) ==
  CASE n = 0 -> "0" [] n = 1 -> "1" [] n = 2 -> "2" [] n = 3 -> "3"
    [] n = 4 -> "4" [] n = 5 -> "5" [] n = 6 -> "6" [] n = 7 -> "7"
    [] n = 8 -> "8" [] n = 9 -> "9"

DigitVal(c) ==
  CASE c = "0" -> 0 [] c = "1" -> 1 [] c = "2" -> 2 [] c = "3" -> 3
    [] c = "4" -> 4 [] c = "5" -> 5 [] c = "6" -> 6 [] c = "7" -> 7
    [] c = "8" -> 8 [] c = "9" -> 9

RECURSIVE IntToString(_)
IntToString(n) ==
  IF n < 10 THEN <<DigitChar(n)>>
  ELSE Append(IntToString(n \div 10), DigitChar(n % 10))

\* Number("<digits>") as an Int, for the short digit strings of measure
\* indices, strings and frets
RECURSIVE DigitsToInt(_)
DigitsToInt(d) ==
  IF d = <<>> THEN 0 ELSE DigitsToInt(Slice(d, 1, Len(d) - 1)) * 10 + DigitVal(d[Len(d)])

\* String(n) of a non-negative integer Number given as a numeral: decimal
\* digits below 10^21, exponent notation from 10^21 on
\* (ECMAScript Number::toString)
NumeralToString(n) ==
  IF Len(n) <= 21 THEN n
  ELSE LET m == StripTrailingZeros(n)
       IN <<m[1]>> \o (IF Len(m) > 1 THEN <<".">> \o Tail(m) ELSE <<>>)
            \o <<"e", "+">> \o IntToString(Len(n) - 1)

(***************************************************************************)
(* Formatter: tools/formatter/src/index.ts                                 *)
(***************************************************************************)
HEADER_DELIMITER == <<"-", "-", "-">>

DurationBases == {"w", "h", "q", "e", "s", "t"}

\* a Duration of the formatter: dots 0 (unset) or 1; tuplet <<>> (unset) or
\* the numeral of Number(tuplet)
NoDuration == [ok |-> FALSE, base |-> "", dots |-> 0, tuplet |-> <<>>]

\* /^([whqest])(\.)?(?:\/(\d+))?$/ : [ok, base, dot, tuplet]; tuplet is <<>>
\* when its group did not take part in the match
MatchDurationToken(token) ==
  IF token = <<>> \/ token[1] \notin DurationBases
  THEN [ok |-> FALSE, base |-> "", dot |-> FALSE, tuplet |-> <<>>]
  ELSE LET afterBase == Tail(token)
           hasDot == afterBase # <<>> /\ afterBase[1] = "."
           afterDot == IF hasDot THEN Tail(afterBase) ELSE afterBase
       IN IF afterDot = <<>>
          THEN [ok |-> TRUE, base |-> token[1], dot |-> hasDot, tuplet |-> <<>>]
          ELSE IF afterDot[1] = "/" /\ Len(afterDot) >= 2
                  /\ DigitRun(Tail(afterDot)) = Len(afterDot) - 1
          THEN [ok |-> TRUE, base |-> token[1], dot |-> hasDot, tuplet |-> Tail(afterDot)]
          ELSE [ok |-> FALSE, base |-> "", dot |-> FALSE, tuplet |-> <<>>]

\* parseDuration of the formatter: null (ok = FALSE) or a Duration
FmtParseDuration(token) ==
  LET match == MatchDurationToken(token)
  IN IF ~match.ok THEN NoDuration
     ELSE [ok |-> TRUE, base |-> match.base,
           dots |-> IF match.dot THEN 1 ELSE 0,
           tuplet |-> IF match.tuplet # <<>> THEN NumberOfDigits(match.tuplet) ELSE <<>>]

\* `${base}${dot}${tuplet}`: a tuplet that is unset or 0 is falsy and omitted
FormatDuration(duration) ==
  <<duration.base>>
    \o (IF duration.dots # 0 THEN <<".">> ELSE <<>>)
    \o (IF duration.tuplet # <<>> /\ duration.tuplet # <<"0">>
        THEN <<"/">> \o NumeralToString(duration.tuplet) ELSE <<>>)

\* one iteration of the loop of splitTokens; st = [current, depth, tokens]
SplitTokensStep(st, char) ==
  LET d == IF IsOpener(char) THEN st.depth + 1
           ELSE IF IsCloser(char) THEN Max(0, st.depth - 1)
           ELSE st.depth
  IN IF d = 0 /\ IsSpace(char)
     THEN [current |-> <<>>, depth |-> d,
           tokens |-> IF st.current # <<>> THEN Append(st.tokens, st.current)
                      ELSE st.tokens]
     ELSE [current |-> Append(st.current, char), depth |-> d, tokens |-> st.tokens]

\* the loop of splitTokens over content[lo..hi], left to right (the range is
\* halved to keep the evaluation shallow; the first half is evaluated, by the
\* test on its depth, before the second half starts)
RECURSIVE SplitTokensFrom(_, _, _, _)
SplitTokensFrom(content, lo, hi, st) ==
  IF lo > hi THEN st
  ELSE IF lo = hi THEN SplitTokensStep(st, content[lo])
  ELSE LET mid == (lo + hi) \div 2
           left == SplitTokensFrom(content, lo, mid, st)
       IN IF left.depth < 0 THEN left
          ELSE SplitTokensFrom(content, mid + 1, hi, left)

\* splitTokens: whitespace-separated, whitespace inside open brackets kept
FmtSplitTokens(content) ==
  LET st == SplitTokensFrom(content, 1, Len(content),
                            [current |-> <<>>, depth |-> 0, tokens |-> <<>>])
  IN IF st.current # <<>> THEN Append(st.tokens, st.current) ELSE st.tokens

RECURSIVE NormalizeFrom(_, _, _)
NormalizeFrom(tokens, currentDuration, output) ==
  IF tokens = <<>> THEN output
  ELSE LET token == Head(tokens)
           duration == FmtParseDuration(token)
       IN IF duration.ok THEN NormalizeFrom(Tail(tokens), duration, output)
          ELSE IF currentDuration.ok
          THEN NormalizeFrom(Tail(tokens), currentDuration,
                             output \o <<FormatDuration(currentDuration), token>>)
          ELSE NormalizeFrom(Tail(tokens), currentDuration, Append(output, token))

\* normalizeMeasureTokens: every event token gets the carried duration in front
NormalizeMeasureTokens(content) ==
  Join(NormalizeFrom(FmtSplitTokens(Trim(content)), NoDuration, <<>>), <<" ">>)

\* /^\s*m(\d+):\s*\|\s*(.*?)\s*\|\s*$/ : [ok, index, content]
MatchFmtMeasure(line) ==
  LET s == TrimStart(line)
      n == IF s # <<>> /\ s[1] = "m" THEN DigitRun(Tail(s)) ELSE 0
      afterDigits == DropFirst(s, 1 + n)
      r == IF afterDigits # <<>> /\ afterDigits[1] = ":"
           THEN TrimStart(Tail(afterDigits)) ELSE <<>>
      inner == IF r # <<>> /\ r[1] = "|" THEN TrimEnd(Tail(r)) ELSE <<>>
  IN IF n >= 1 /\ inner # <<>> /\ inner[Len(inner)] = "|"
     THEN [ok |-> TRUE, index |-> Slice(s, 2, 1 + n),
           content |-> Trim(Slice(inner, 1, Len(inner) - 1))]
     ELSE [ok |-> FALSE, index |-> <<>>, content |-> <<>>]

\* formatMeasureLine: null (ok = FALSE) or the canonical line
FormatMeasureLine(line) ==
  LET match == MatchFmtMeasure(line)
      normalized == NormalizeMeasureTokens(match.content)
      tokens == IF normalized # <<>> THEN <<" ">> \o normalized \o <<" ">> ELSE <<" ">>
  IN IF match.ok
     THEN [ok |-> TRUE, line |-> <<"m">> \o match.index \o <<":", " ", "|">> \o tokens \o <<"|">>]
     ELSE [ok |-> FALSE, line |-> <<>>]

\* splitInlineComment: the line cut at its first "#"
SplitInlineComment(line) ==
  LET commentIndex == IndexOf(line, "#")
  IN IF commentIndex = 0
     THEN [content |-> line, hasComment |-> FALSE, comment |-> <<>>]
     ELSE [content |-> Slice(line, 1, commentIndex - 1), hasComment |-> TRUE,
           comment |-> Slice(line, commentIndex, Len(line))]

RECURSIVE TrimTrailingBlankLines(_)
TrimTrailingBlankLines(lines) ==
  IF lines # <<>> /\ Trim(lines[Len(lines)]) = <<>>
  THEN TrimTrailingBlankLines(Slice(lines, 1, Len(lines) - 1)) ELSE lines

RECURSIVE TrimLeadingBlankLines(_)
TrimLeadingBlankLines(lines) ==
  IF lines # <<>> /\ Trim(lines[1]) = <<>>
  THEN TrimLeadingBlankLines(Tail(lines)) ELSE lines

FormatBodyLine(line) ==
  LET trimmedLine == TrimEnd(line)
      split == SplitInlineComment(trimmedLine)
      formattedMeasure == FormatMeasureLine(split.content)
  IN IF StartsWith(Trim(trimmedLine), <<"#">>) THEN trimmedLine
     ELSE IF ~formattedMeasure.ok THEN trimmedLine
     ELSE IF ~split.hasComment THEN formattedMeasure.line
     ELSE formattedMeasure.line \o <<" ">> \o TrimEnd(split.comment)

\* lines.findIndex(line => line.trim() === "---"); 0 when absent (JS: -1)
DelimiterIndex(lines) ==
  IF \E i \in 1..Len(lines) : Trim(lines[i]) = HEADER_DELIMITER
  THEN CHOOSE i \in 1..Len(lines) :
         /\ Trim(lines[i]) = HEADER_DELIMITER
         /\ \A j \in 1..(i - 1) : Trim(lines[j]) # HEADER_DELIMITER
  ELSE 0

\* formatOtab, on the lines of the input; the result is the lines of the output
FormatOtab(lines) ==
  LET delimiterIndex == DelimiterIndex(lines)
      headerLines == TrimTrailingBlankLines(
                       Map1(TrimEnd, Slice(lines, 1, delimiterIndex - 1)))
      bodyLines == TrimLeadingBlankLines(Slice(lines, delimiterIndex + 1, Len(lines)))
      formattedBody == Map1(FormatBodyLine, bodyLines)
  IN IF delimiterIndex = 0 THEN Map1(TrimEnd, lines)
     ELSE Map1(TrimEnd, headerLines \o <<<<>>, HEADER_DELIMITER, <<>>>> \o formattedBody)

(***************************************************************************)
(* JavaScript objects and Maps: the entries in insertion order, each key   *)
(* once.  (The keys of the model are not integer-like, so insertion order  *)
(* is the iteration order.)                                                *)
(***************************************************************************)
ObjHas(o, k) == \E i \in 1..Len(o) : o[i].k = k
ObjGet(o, k) == o[CHOOSE i \in 1..Len(o) : o[i].k = k].v
ObjSet(o, k, v) ==
  IF ObjHas(o, k)
  THEN [i \in 1..Len(o) |-> IF o[i].k = k THEN [k |-> k, v |-> v] ELSE o[i]]
  ELSE Append(o, [k |-> k, v |-> v])
ObjKeys(o) == [i \in 1..Len(o) |-> o[i].k]
ObjValues(o) == [i \in 1..Len(o) |-> o[i].v]

(***************************************************************************)
(* Parser: tools/parser/src/index.ts                                       *)
(***************************************************************************)
\* OpenTabParseError messages (the part before the quoted source text)
ErrMissingDelimiter == "Missing header delimiter"
ErrInvalidMeasureLine == "Invalid measure line"
ErrNoTrackSelected == "Measure defined before selecting track/voice"
ErrMissingDuration == "Missing duration before token"
ErrInvalidRest == "Invalid rest token"
ErrInvalidChord == "Invalid chord token"
ErrChordNoNotes == "Chord has no notes"
ErrInvalidNote == "Invalid note token"
ErrInvalidNoteRef == "Invalid note reference"
ErrInvalidFret == "Invalid fret in note reference"
ErrUnknownTechnique == "Unknown technique in note"
ErrTechniqueMissingFret == "Technique missing fret in note"
ErrUnknownToken == "Unknown token"
ErrInvalidDirective == "Invalid directive"
ErrUnknownLine == "Unknown line in body"
ErrInvalidHeaderLine == "Invalid header line"
ErrTrackMissingId == "Track definition missing id"
ErrUnsupportedFormat == "Unsupported format"
ErrUnsupportedVersion == "Unsupported version"
ErrInvalidHeaderField == "Invalid header field"
ErrInvalidTempo == "Invalid tempo_bpm"
ErrInvalidTimeSignature == "Invalid time signature"
ErrInvalidSwing == "Invalid swing value"
NoError == ""

\* stripComment: a line whose first non-blank character is "#" becomes ""
StripComment(line) == IF StartsWith(Trim(line), <<"#">>) THEN <<>> ELSE line

\* a header or annotation value: t is "string", "number", "boolean" or
\* "array"; v is the text of a string or boolean and the numeral of a
\* number; items are the values of an array
StringValue(chars) == [t |-> "string", v |-> chars, items |-> <<>>]
NumberValue(numeral) == [t |-> "number", v |-> numeral, items |-> <<>>]
BooleanValue(chars) == [t |-> "boolean", v |-> chars, items |-> <<>>]
ArrayValue(items) == [t |-> "array", v |-> <<>>, items |-> items]

sTrue == <<"t", "r", "u", "e">>
sFalse == <<"f", "a", "l", "s", "e">>

\* Number(text) is a number (not NaN) for digits and for the empty text
\* (Number("") is 0); the model holds no text with a sign, a point, an
\* exponent or a radix prefix
IsNumeric(text) == DigitRun(text) = Len(text)
NumberOfText(text) == IF text = <<>> THEN <<"0">> ELSE NumberOfDigits(text)

RECURSIVE SplitCommaFrom(_, _, _, _, _)
SplitCommaFrom(value, i, current, inString, parts) ==
  IF i > Len(value)
  THEN IF Trim(current) # <<>> THEN Append(parts, Trim(current)) ELSE parts
  ELSE LET char == value[i]
           inStr == IF char = "\"" THEN ~inString ELSE inString
       IN IF char = "," /\ ~inStr
          THEN SplitCommaFrom(value, i + 1, <<>>, inStr, Append(parts, Trim(current)))
          ELSE SplitCommaFrom(value, i + 1, Append(current, char), inStr, parts)

\* splitCommaSeparated: commas inside double quotes do not split
SplitCommaSeparated(value) == SplitCommaFrom(value, 1, <<>>, FALSE, <<>>)

\* slice(1, -1)
Unwrap(s) == Slice(s, 2, Len(s) - 1)

RECURSIVE ParseTomlValue(_)
ParseTomlValue(raw) ==
  LET trimmed == Trim(raw)
      inner == Trim(Unwrap(trimmed))
      parts == SplitCommaSeparated(inner)
  IN IF StartsWith(trimmed, <<"\"">>) /\ EndsWith(trimmed, <<"\"">>)
     THEN StringValue(Unwrap(trimmed))
     ELSE IF trimmed = sTrue \/ trimmed = sFalse THEN BooleanValue(trimmed)
     ELSE IF StartsWith(trimmed, <<"[">>) /\ EndsWith(trimmed, <<"]">>)
     THEN IF inner = <<>> THEN ArrayValue(<<>>)
          ELSE ArrayValue([i \in 1..Len(parts) |-> ParseTomlValue(parts[i])])
     ELSE IF IsNumeric(trimmed) THEN NumberValue(NumberOfText(trimmed))
     ELSE StringValue(trimmed)

ParseAnnotationValue(raw) ==
  LET trimmed == Trim(raw)
  IN IF StartsWith(trimmed, <<"\"">>) /\ EndsWith(trimmed, <<"\"">>)
     THEN StringValue(Unwrap(trimmed))
     ELSE IF trimmed = sTrue \/ trimmed = sFalse THEN BooleanValue(trimmed)
     ELSE IF IsNumeric(trimmed) THEN NumberValue(NumberOfText(trimmed))
     ELSE StringValue(trimmed)

RECURSIVE AnnotationsFrom(_, _)
AnnotationsFrom(entries, annotations) ==
  IF entries = <<>> THEN annotations
  ELSE LET entry == Head(entries)
           eq == IndexOf(entry, "=")
           keyPart == IF eq = 0 THEN entry ELSE Slice(entry, 1, eq - 1)
           valueRaw == Trim(DropFirst(entry, eq))
       IN IF keyPart = <<>> \/ eq = 0
          THEN AnnotationsFrom(Tail(entries), annotations)
          ELSE AnnotationsFrom(Tail(entries),
                 ObjSet(annotations, Trim(keyPart), ParseAnnotationValue(valueRaw)))

\* parseAnnotations: the annotation object; <<>> stands for undefined (the
\* code returns undefined for an object without keys)
ParseAnnotations(raw) ==
  LET trimmed == Trim(raw)
      inner == Trim(Unwrap(trimmed))
  IN IF raw = <<>> THEN <<>>
     ELSE IF ~(StartsWith(trimmed, <<"{">>) /\ EndsWith(trimmed, <<"}">>)) THEN <<>>
     ELSE IF inner = <<>> THEN <<>>
     ELSE AnnotationsFrom(SplitCommaSeparated(inner), <<>>)

RECURSIVE SplitAnnotationsFrom(_, _, _)
SplitAnnotationsFrom(token, i, depth) ==
  IF i > Len(token) THEN [main |-> token, annotation |-> <<>>]
  ELSE LET char == token[i]
       IN IF char \in {"[", "("} THEN SplitAnnotationsFrom(token, i + 1, depth + 1)
          ELSE IF char \in {"]", ")"}
          THEN SplitAnnotationsFrom(token, i + 1, Max(0, depth - 1))
          ELSE IF char = "{" /\ depth = 0
          THEN [main |-> Slice(token, 1, i - 1), annotation |-> Slice(token, i, Len(token))]
          ELSE SplitAnnotationsFrom(token, i + 1, depth)

\* splitAnnotations: the token cut at its first "{" outside "(" and "["
SplitAnnotations(token) == SplitAnnotationsFrom(token, 1, 0)

\* parseDuration of the parser: null (ok = FALSE) or a Duration
ParseDuration(token) ==
  LET match == MatchDurationToken(token)
  IN IF ~match.ok THEN NoDuration
     ELSE [ok |-> TRUE, base |-> match.base,
           dots |-> IF match.dot THEN 1 ELSE 0,
           tuplet |-> IF match.tuplet # <<>> THEN NumberOfDigits(match.tuplet) ELSE <<>>]

\* the Duration stored in an Event
EventDuration(d) == [base |-> d.base, dots |-> d.dots, tuplet |-> d.tuplet]

\* a Technique; fromFret and toFret are -1 and direction "" where the code
\* sets no such field
Vibrato == [type |-> "vibrato", fromFret |-> -1, toFret |-> -1, direction |-> ""]
TechniqueOf(op, fromFret, toFret) ==
  [type |-> IF op = "h" THEN "hammer_on" ELSE IF op = "p" THEN "pull_off" ELSE "slide",
   fromFret |-> fromFret, toFret |-> toFret,
   direction |-> IF op = "/" THEN "up" ELSE IF op = "\\" THEN "down" ELSE ""]

NoNoteRef == [string |-> 0, fret |-> 0, inlineTechniques |-> <<>>]

\* the technique loop with every technique starting from the first fret of
\* the note
RECURSIVE TechniquesFromFirst(_, _, _, _)
TechniquesFromFirst(restRaw, index, currentFret, techniques) ==
  IF index > Len(restRaw) THEN [err |-> NoError, techniques |-> techniques]
  ELSE LET op == restRaw[index]
           n == DigitRun(DropFirst(restRaw, index))
           nextFret == DigitsToInt(Slice(restRaw, index + 1, index + n))
       IN IF op = "~"
          THEN TechniquesFromFirst(restRaw, index + 1, currentFret, Append(techniques, Vibrato))
          ELSE IF op \notin {"h", "p", "/", "\\"}
          THEN [err |-> ErrUnknownTechnique, techniques |-> <<>>]
          ELSE IF n = 0 THEN [err |-> ErrTechniqueMissingFret, techniques |-> <<>>]
          ELSE TechniquesFromFirst(restRaw, index + 1 + n, currentFret,
                                   Append(techniques, TechniqueOf(op, currentFret, nextFret)))

\* the technique loop of parseNoteRef over restRaw from `index` (1-based)
RECURSIVE TechniquesFrom(_, _, _, _)
TechniquesFrom(restRaw, index, currentFret, techniques) ==
  IF index > Len(restRaw) THEN [err |-> NoError, techniques |-> techniques]
  ELSE LET op == restRaw[index]
           n == DigitRun(DropFirst(restRaw, index))
           nextFret == DigitsToInt(Slice(restRaw, index + 1, index + n))
       IN IF op = "~"
          THEN TechniquesFrom(restRaw, index + 1, currentFret, Append(techniques, Vibrato))
          ELSE IF op \notin {"h", "p", "/", "\\"}
          THEN [err |-> ErrUnknownTechnique, techniques |-> <<>>]
          ELSE IF n = 0 THEN [err |-> ErrTechniqueMissingFret, techniques |-> <<>>]
          ELSE TechniquesFrom(restRaw, index + 1 + n, nextFret,
                              Append(techniques, TechniqueOf(op, currentFret, nextFret)))

\* parseNoteRef: [err, note]
ParseNoteRef(raw) ==
  LET n == DigitRun(raw)
      matches == n >= 1 /\ Len(raw) >= n + 2 /\ raw[n + 1] = ":"
      restRaw == DropFirst(raw, n + 1)
      f == DigitRun(restRaw)
      fret == DigitsToInt(Slice(restRaw, 1, f))
      chain == TechniquesFrom(restRaw, f + 1, fret, <<>>)
  IN IF ~matches THEN [err |-> ErrInvalidNoteRef, note |-> NoNoteRef]
     ELSE IF f = 0 THEN [err |-> ErrInvalidFret, note |-> NoNoteRef]
     ELSE IF chain.err # NoError THEN [err |-> chain.err, note |-> NoNoteRef]
     ELSE [err |-> NoError,
           note |-> [string |-> DigitsToInt(Slice(raw, 1, n)), fret |-> fret,
                     inlineTechniques |-> chain.techniques]]

\* inner.matchAll(/\(([^)]+)\)/g): the captured texts, left to right
RECURSIVE ChordMatchesFrom(_, _, _)
ChordMatchesFrom(inner, i, found) ==
  IF i > Len(inner) THEN found
  ELSE LET close == IndexOf(DropFirst(inner, i), ")")
       IN IF inner[i] = "(" /\ close >= 2
          THEN ChordMatchesFrom(inner, i + close + 1,
                                Append(found, Slice(inner, i + 1, i + close - 1)))
          ELSE ChordMatchesFrom(inner, i + 1, found)

RECURSIVE NoteRefsFrom(_, _)
NoteRefsFrom(raws, notes) ==
  IF raws = <<>> THEN [err |-> NoError, notes |-> notes]
  ELSE LET r == ParseNoteRef(Head(raws))
       IN IF r.err # NoError THEN [err |-> r.err, notes |-> <<>>]
          ELSE NoteRefsFrom(Tail(raws), Append(notes, r.note))

\* parseChord: [err, notes, annotations]
ParseChord(token) ==
  LET split == SplitAnnotations(token)
      inner == Trim(Unwrap(split.main))
      refs == NoteRefsFrom(ChordMatchesFrom(inner, 1, <<>>), <<>>)
  IN IF ~(StartsWith(split.main, <<"[">>) /\ EndsWith(split.main, <<"]">>))
     THEN [err |-> ErrInvalidChord, notes |-> <<>>, annotations |-> <<>>]
     ELSE IF refs.err # NoError
     THEN [err |-> refs.err, notes |-> <<>>, annotations |-> <<>>]
     ELSE IF refs.notes = <<>>
     THEN [err |-> ErrChordNoNotes, notes |-> <<>>, annotations |-> <<>>]
     ELSE [err |-> NoError, notes |-> refs.notes,
           annotations |-> ParseAnnotations(split.annotation)]

\* parseRest: [err, annotations]
ParseRest(token) ==
  LET split == SplitAnnotations(token)
  IN IF split.main # <<"r">> THEN [err |-> ErrInvalidRest, annotations |-> <<>>]
     ELSE [err |-> NoError, annotations |-> ParseAnnotations(split.annotation)]

\* parseNote: [err, note, annotations]
ParseNote(token) ==
  LET split == SplitAnnotations(token)
      ref == ParseNoteRef(Unwrap(split.main))
  IN IF ~(StartsWith(split.main, <<"(">>) /\ EndsWith(split.main, <<")">>))
     THEN [err |-> ErrInvalidNote, note |-> NoNoteRef, annotations |-> <<>>]
     ELSE IF ref.err # NoError
     THEN [err |-> ref.err, note |-> NoNoteRef, annotations |-> <<>>]
     ELSE [err |-> NoError, note |-> ref.note,
           annotations |-> ParseAnnotations(split.annotation)]

\* an Event: notes holds the note of a note event, the notes of a chord and
\* nothing for a rest
RestEvent(duration, annotations) ==
  [type |-> "rest", duration |-> duration, notes |-> <<>>, annotations |-> annotations]
ChordEvent(duration, notes, annotations) ==
  [type |-> "chord", duration |-> duration, notes |-> notes, annotations |-> annotations]
NoteEvent(duration, note, annotations) ==
  [type |-> "note", duration |-> duration, notes |-> <<note>>, annotations |-> annotations]

\* the event of a token that is no duration: [err, event]
NoEvent == RestEvent(NoDuration, <<>>)
EventOfRest(rest, d) ==
  IF rest.err # NoError THEN [err |-> rest.err, event |-> NoEvent]
  ELSE [err |-> NoError, event |-> RestEvent(d, rest.annotations)]
EventOfChord(chord, d) ==
  IF chord.err # NoError THEN [err |-> chord.err, event |-> NoEvent]
  ELSE [err |-> NoError, event |-> ChordEvent(d, chord.notes, chord.annotations)]
EventOfNote(note, d) ==
  IF note.err # NoError THEN [err |-> note.err, event |-> NoEvent]
  ELSE [err |-> NoError, event |-> NoteEvent(d, note.note, note.annotations)]

ParseEvent(token, d) ==
  IF StartsWith(token, <<"r">>) THEN EventOfRest(ParseRest(token), d)
  ELSE IF StartsWith(token, <<"[">>) THEN EventOfChord(ParseChord(token), d)
  ELSE IF StartsWith(token, <<"(">>) THEN EventOfNote(ParseNote(token), d)
  ELSE [err |-> ErrUnknownToken, event |-> NoEvent]

\* a token step in which the first duration of the line stays the current
\* one: later duration tokens are ignored
TokenStepFirstDuration(token, duration, loop) ==
  IF duration.ok
  THEN IF loop.currentDuration.ok THEN loop ELSE [loop EXCEPT !.currentDuration = duration]
  ELSE IF ~loop.currentDuration.ok THEN [loop EXCEPT !.err = ErrMissingDuration]
  ELSE LET parsed == ParseEvent(token, EventDuration(loop.currentDuration))
       IN IF parsed.err # NoError THEN [loop EXCEPT !.err = parsed.err]
          ELSE [loop EXCEPT !.events = Append(loop.events, parsed.event)]

\* one token of the loop of parseMeasureLine, its duration already parsed:
\* the current duration and the events after it, or the error
TokenStep(token, duration, loop) ==
  IF duration.ok THEN [loop EXCEPT !.currentDuration = duration]
  ELSE IF ~loop.currentDuration.ok THEN [loop EXCEPT !.err = ErrMissingDuration]
  ELSE LET parsed == ParseEvent(token, EventDuration(loop.currentDuration))
       IN IF parsed.err # NoError THEN [loop EXCEPT !.err = parsed.err]
          ELSE [loop EXCEPT !.events = Append(loop.events, parsed.event)]

\* the token loop of parseMeasureLine; it ends at the first error
RECURSIVE TokenLoop(_, _)
TokenLoop(tokens, loop) ==
  IF tokens = <<>> \/ loop.err # NoError THEN loop
  ELSE TokenLoop(Tail(tokens), TokenStep(Head(tokens), ParseDuration(Head(tokens)), loop))

\* the result of the loop: [err, events], no events with an error
LoopResult(loop) ==
  [err |-> loop.err, events |-> IF loop.err # NoError THEN <<>> ELSE loop.events]

\* the token loop of parseMeasureLine from a current duration on: [err, events]
EventsFrom(tokens, currentDuration, events) ==
  LoopResult(TokenLoop(tokens, [currentDuration |-> currentDuration,
                                events |-> events, err |-> NoError]))

\* splitTokens of the parser (the same loop as the formatter's)
SplitTokens(content) ==
  LET st == SplitTokensFrom(content, 1, Len(content),
                            [current |-> <<>>, depth |-> 0, tokens |-> <<>>])
  IN IF st.current # <<>> THEN Append(st.tokens, st.current) ELSE st.tokens

\* /^m(\d+):\s*\|(.*)\|\s*$/ : [ok, index, content]
MatchMeasureLine(line) ==
  LET n == IF line # <<>> /\ line[1] = "m" THEN DigitRun(Tail(line)) ELSE 0
      afterDigits == DropFirst(line, 1 + n)
      r == IF afterDigits # <<>> /\ afterDigits[1] = ":"
           THEN TrimStart(Tail(afterDigits)) ELSE <<>>
      inner == IF r # <<>> /\ r[1] = "|" THEN TrimEnd(Tail(r)) ELSE <<>>
  IN IF n >= 1 /\ inner # <<>> /\ inner[Len(inner)] = "|"
     THEN [ok |-> TRUE, index |-> Slice(line, 2, 1 + n),
           content |-> Slice(inner, 1, Len(inner) - 1)]
     ELSE [ok |-> FALSE, index |-> <<>>, content |-> <<>>]

\* the state of the body loop: the DirectiveState (<<>> stands for null),
\* the measureMap and the error thrown, if any
InitialParseState ==
  [trackId |-> <<>>, voiceId |-> <<>>, measureMap |-> <<>>, err |-> NoError]

Throw(ps, err) == [ps EXCEPT !.err = err]

sV1 == <<"v", "1">>

\* the tokens of the content of a measure line
MeasureTokens(content) == IF content # <<>> THEN SplitTokens(content) ELSE <<>>

\* a store that starts the track's entry of the measure afresh
StoreEventsFresh(ps, measureIndex, events) ==
  LET measure == IF ObjHas(ps.measureMap, measureIndex)
                 THEN ObjGet(ps.measureMap, measureIndex)
                 ELSE [index |-> measureIndex, tracks |-> <<>>]
      newTrackMeasure == [voices |-> ObjSet(<<>>, ps.voiceId, events)]
      newMeasure == [measure EXCEPT !.tracks = ObjSet(measure.tracks, ps.trackId, newTrackMeasure)]
  IN [ps EXCEPT !.measureMap = ObjSet(ps.measureMap, measureIndex, newMeasure)]

\* the end of parseMeasureLine: the events stored in the measureMap under the
\* selected track and voice
StoreEvents(ps, measureIndex, events) ==
  LET measure == IF ObjHas(ps.measureMap, measureIndex)
                 THEN ObjGet(ps.measureMap, measureIndex)
                 ELSE [index |-> measureIndex, tracks |-> <<>>]
      trackMeasure == IF ObjHas(measure.tracks, ps.trackId)
                      THEN ObjGet(measure.tracks, ps.trackId)
                      ELSE [voices |-> <<>>]
      newTrackMeasure == [voices |-> ObjSet(trackMeasure.voices, ps.voiceId, events)]
      newMeasure == [measure EXCEPT !.tracks = ObjSet(measure.tracks, ps.trackId, newTrackMeasure)]
  IN [ps EXCEPT !.measureMap = ObjSet(ps.measureMap, measureIndex, newMeasure)]

\* the events parsed are stored, an error is thrown
StoreParsed(ps, measureIndex, parsed) ==
  IF parsed.err # NoError THEN Throw(ps, parsed.err)
  ELSE StoreEvents(ps, measureIndex, parsed.events)

\* the duration of the last event stored for the selected track and voice
LastStoredDuration(ps) ==
  LET stored == {i \in 1..Len(ps.measureMap) :
                   /\ ObjHas(ps.measureMap[i].v.tracks, ps.trackId)
                   /\ ObjHas(ObjGet(ps.measureMap[i].v.tracks, ps.trackId).voices, ps.voiceId)
                   /\ ObjGet(ObjGet(ps.measureMap[i].v.tracks, ps.trackId).voices, ps.voiceId) # <<>>}
      last == CHOOSE i \in stored : \A j \in stored : j <= i
      lastEvents == ObjGet(ObjGet(ps.measureMap[last].v.tracks, ps.trackId).voices, ps.voiceId)
  IN IF stored = {} THEN NoDuration
     ELSE [ok |-> TRUE,
           base |-> lastEvents[Len(lastEvents)].duration.base,
           dots |-> lastEvents[Len(lastEvents)].duration.dots,
           tuplet |-> lastEvents[Len(lastEvents)].duration.tuplet]

\* a parseMeasureLine whose current duration starts as the duration of the
\* last event stored for the selected track and voice
ParseMeasureLineCarrying(line, ps) ==
  LET match == MatchMeasureLine(line)
  IN IF ~match.ok THEN Throw(ps, ErrInvalidMeasureLine)
     ELSE IF ps.trackId = <<>> \/ ps.voiceId = <<>> THEN Throw(ps, ErrNoTrackSelected)
     ELSE StoreParsed(ps, DigitsToInt(match.index),
                      EventsFrom(MeasureTokens(Trim(match.content)),
                                 LastStoredDuration(ps), <<>>))

\* a parseMeasureLine without the check that a track and a voice are selected
ParseMeasureLineUnchecked(line, ps) ==
  LET match == MatchMeasureLine(line)
  IN IF ~match.ok THEN Throw(ps, ErrInvalidMeasureLine)
     ELSE StoreParsed(ps, DigitsToInt(match.index),
                      EventsFrom(MeasureTokens(Trim(match.content)), NoDuration, <<>>))

\* parseMeasureLine
ParseMeasureLine(line, ps) ==
  LET match == MatchMeasureLine(line)
  IN IF ~match.ok THEN Throw(ps, ErrInvalidMeasureLine)
     ELSE IF ps.trackId = <<>> \/ ps.voiceId = <<>> THEN Throw(ps, ErrNoTrackSelected)
     ELSE StoreParsed(ps, DigitsToInt(match.index),
                      EventsFrom(MeasureTokens(Trim(match.content)), NoDuration, <<>>))

sAtTrack == <<"@", "t", "r", "a", "c", "k">>
sVoice == <<"v", "o", "i", "c", "e">>

\* length of the longest prefix without whitespace: /^\S*/
RECURSIVE NonSpaceRun(_)
NonSpaceRun(s) == IF s # <<>> /\ ~IsSpace(s[1]) THEN 1 + NonSpaceRun(Tail(s)) ELSE 0

\* /^@track\s+(\S+)(?:\s+voice\s+(\S+))?$/ : [ok, track, voice]; voice is <<>>
\* when its group did not take part in the match
MatchDirective(line) ==
  LET afterKeyword == DropFirst(line, Len(sAtTrack))
      a == TrimStart(afterKeyword)
      t == NonSpaceRun(a)
      afterTrack == DropFirst(a, t)
      b == TrimStart(afterTrack)
      c == TrimStart(DropFirst(b, Len(sVoice)))
      v == NonSpaceRun(c)
      no == [ok |-> FALSE, track |-> <<>>, voice |-> <<>>]
  IN IF ~StartsWith(line, sAtTrack) \/ a = afterKeyword \/ t = 0 THEN no
     ELSE IF afterTrack = <<>> THEN [ok |-> TRUE, track |-> Slice(a, 1, t), voice |-> <<>>]
     ELSE IF /\ NonSpaceRun(b) = Len(sVoice)
             /\ StartsWith(b, sVoice)
             /\ v >= 1
             /\ v = Len(c)
          THEN [ok |-> TRUE, track |-> Slice(a, 1, t), voice |-> c]
     ELSE no

\* a parseDirective that keeps the selected voice when the directive names none
ParseDirectiveKeepingVoice(line, ps) ==
  LET match == MatchDirective(line)
  IN IF ~match.ok THEN Throw(ps, ErrInvalidDirective)
     ELSE [ps EXCEPT !.trackId = match.track,
                     !.voiceId = IF match.voice # <<>> THEN match.voice
                                 ELSE IF ps.voiceId # <<>> THEN ps.voiceId ELSE sV1]

\* parseDirective
ParseDirective(line, ps) ==
  LET match == MatchDirective(line)
  IN IF ~match.ok THEN Throw(ps, ErrInvalidDirective)
     ELSE [ps EXCEPT !.trackId = match.track,
                     !.voiceId = IF match.voice # <<>> THEN match.voice ELSE sV1]

\* one iteration of the body loop of parseOpenTab
ParseBodyLine(rawLine, ps) ==
  LET stripped == Trim(StripComment(rawLine))
  IN IF stripped = <<>> THEN ps
     ELSE IF StartsWith(stripped, sAtTrack) THEN ParseDirective(stripped, ps)
     ELSE IF StartsWith(stripped, <<"m">>) THEN ParseMeasureLine(stripped, ps)
     ELSE Throw(ps, ErrUnknownLine)

\* the body loop: it ends at the first error
RECURSIVE ParseBody(_, _)
ParseBody(bodyLines, ps) ==
  IF bodyLines = <<>> \/ ps.err # NoError THEN ps
  ELSE ParseBody(Tail(bodyLines), ParseBodyLine(Head(bodyLines), ps))

\* Array.prototype.sort((a, b) => a.index - b.index), which is stable
RECURSIVE InsertByIndex(_, _)
InsertByIndex(sorted, m) ==
  IF sorted = <<>> THEN <<m>>
  ELSE IF sorted[Len(sorted)].index <= m.index THEN Append(sorted, m)
  ELSE Append(InsertByIndex(Slice(sorted, 1, Len(sorted) - 1), m), sorted[Len(sorted)])

RECURSIVE SortByIndex(_)
SortByIndex(ms) ==
  IF ms = <<>> THEN <<>>
  ELSE InsertByIndex(SortByIndex(Slice(ms, 1, Len(ms) - 1)), ms[Len(ms)])

(***************************************************************************)
(* Parser, header: parseHeader, normalizeHeader, parseOpenTab              *)
(***************************************************************************)
Undefined == [t |-> "undefined", v |-> <<>>, items |-> <<>>]
sNaN == <<"N", "a", "N">>

\* String(value)
RECURSIVE JsString(_)
JsString(value) ==
  IF value.t = "number" THEN NumeralToString(value.v)
  ELSE IF value.t = "array"
  THEN Join([i \in 1..Len(value.items) |-> JsString(value.items[i])], <<",">>)
  ELSE IF value.t = "undefined" THEN <<"u", "n", "d", "e", "f", "i", "n", "e", "d">>
  ELSE value.v

\* Number(value): a number value; its numeral is "NaN" where the text is no number
JsNumber(value) ==
  IF value.t = "number" THEN value
  ELSE IF value.t = "boolean" THEN NumberValue(IF value.v = sTrue THEN <<"1">> ELSE <<"0">>)
  ELSE IF value.t = "string" /\ IsNumeric(Trim(value.v))
  THEN NumberValue(NumberOfText(Trim(value.v)))
  ELSE IF value.t = "array" /\ value.items = <<>> THEN NumberValue(<<"0">>)
  ELSE IF value.t = "array" /\ Len(value.items) = 1 /\ IsNumeric(Trim(JsString(value.items[1])))
  THEN NumberValue(NumberOfText(Trim(JsString(value.items[1]))))
  ELSE NumberValue(sNaN)

kId == <<"i", "d">>
kName == <<"n", "a", "m", "e">>
kInstrument == <<"i", "n", "s", "t", "r", "u", "m", "e", "n", "t">>
kTuning == <<"t", "u", "n", "i", "n", "g">>
kCapo == <<"c", "a", "p", "o">>
kFormat == <<"f", "o", "r", "m", "a", "t">>
kVersion == <<"v", "e", "r", "s", "i", "o", "n">>
kTempoBpm == <<"t", "e", "m", "p", "o", "_", "b", "p", "m">>
kTimeSignature == <<"t", "i", "m", "e", "_", "s", "i", "g", "n", "a", "t", "u", "r", "e">>
kSwing == <<"s", "w", "i", "n", "g">>
sTracksTable == <<"[", "[", "t", "r", "a", "c", "k", "s", "]", "]">>
sOpentab == <<"o", "p", "e", "n", "t", "a", "b">>
sVersion01 == <<"0", ".", "1">>
sNone == <<"n", "o", "n", "e">>
sEighth == <<"e", "i", "g", "h", "t", "h">>
StringFields == {<<"t", "i", "t", "l", "e">>, <<"a", "r", "t", "i", "s", "t">>, <<"a", "l", "b", "u", "m">>, <<"c", "o", "m", "p", "o", "s", "e", "r">>, <<"s", "o", "u", "r", "c", "e">>, <<"c", "o", "p", "y", "r", "i", "g", "h", "t">>}

\* the candidate of a [[tracks]] table before buildTrack
EmptyTrack ==
  [id |-> Undefined, name |-> Undefined, instrument |-> Undefined,
   tuning |-> Undefined, capo |-> Undefined]

\* `!candidate.id`: undefined and "" are falsy
BuildTrackFails(candidate) == candidate.id.t = "undefined" \/ candidate.id.v = <<>>

IsWordChar(c) ==
  \/ IsDigit(c)
  \/ c = "_"
  \/ c \in {"a", "b", "c", "d", "e", "f", "g", "h", "i", "j", "k", "l", "m",
            "n", "o", "p", "q", "r", "s", "t", "u", "v", "w", "x", "y", "z"}
  \/ c \in {"A", "B", "C", "D", "E", "F", "G", "H", "I", "J", "K", "L", "M",
            "N", "O", "P", "Q", "R", "S", "T", "U", "V", "W", "X", "Y", "Z"}

RECURSIVE WordRun(_)
WordRun(s) == IF s # <<>> /\ IsWordChar(s[1]) THEN 1 + WordRun(Tail(s)) ELSE 0

\* /^([A-Za-z0-9_]+)\s*=\s*(.+)$/ on a trimmed line: [ok, key, valueRaw]
MatchHeaderLine(line) ==
  LET n == WordRun(line)
      r == TrimStart(DropFirst(line, n))
      valueRaw == IF r # <<>> /\ r[1] = "=" THEN TrimStart(Tail(r)) ELSE <<>>
  IN IF n >= 1 /\ valueRaw # <<>>
     THEN [ok |-> TRUE, key |-> Slice(line, 1, n), valueRaw |-> valueRaw]
     ELSE [ok |-> FALSE, key |-> <<>>, valueRaw |-> <<>>]

\* the assignments of parseHeader inside a [[tracks]] table
SetTrackField(track, key, value) ==
  IF key = kId THEN [track EXCEPT !.id = StringValue(JsString(value))]
  ELSE IF key = kName THEN [track EXCEPT !.name = StringValue(JsString(value))]
  ELSE IF key = kInstrument THEN [track EXCEPT !.instrument = StringValue(JsString(value))]
  ELSE IF key = kTuning
  THEN [track EXCEPT !.tuning =
          IF value.t = "array"
          THEN ArrayValue([i \in 1..Len(value.items) |-> StringValue(JsString(value.items[i]))])
          ELSE Undefined]
  ELSE IF key = kCapo THEN [track EXCEPT !.capo = JsNumber(value)]
  ELSE track

InitialHeaderState ==
  [header |-> <<>>, tracks |-> <<>>, inTrack |-> FALSE, currentTrack |-> EmptyTrack,
   format |-> Undefined, version |-> Undefined, err |-> NoError]

\* one iteration of the loop of parseHeader
ParseHeaderLine(rawLine, hs) ==
  LET line == Trim(StripComment(rawLine))
      match == MatchHeaderLine(line)
      value == ParseTomlValue(match.valueRaw)
  IN IF line = <<>> THEN hs
     ELSE IF line = sTracksTable
     THEN IF hs.inTrack /\ BuildTrackFails(hs.currentTrack)
          THEN [hs EXCEPT !.err = ErrTrackMissingId]
          ELSE [hs EXCEPT !.tracks = IF hs.inTrack THEN Append(@, hs.currentTrack) ELSE @,
                          !.inTrack = TRUE, !.currentTrack = EmptyTrack]
     ELSE IF ~match.ok THEN [hs EXCEPT !.err = ErrInvalidHeaderLine]
     ELSE IF hs.inTrack
     THEN [hs EXCEPT !.currentTrack = SetTrackField(@, match.key, value)]
     ELSE IF match.key = kFormat THEN [hs EXCEPT !.format = StringValue(JsString(value))]
     ELSE IF match.key = kVersion THEN [hs EXCEPT !.version = StringValue(JsString(value))]
     ELSE [hs EXCEPT !.header = ObjSet(@, match.key, value)]

RECURSIVE ParseHeaderFrom(_, _)
ParseHeaderFrom(lines, hs) ==
  IF lines = <<>> \/ hs.err # NoError THEN hs
  ELSE ParseHeaderFrom(Tail(lines), ParseHeaderLine(Head(lines), hs))

\* parseHeader: the loop, then the last open [[tracks]] table
ParseHeader(lines) ==
  LET hs == ParseHeaderFrom(lines, InitialHeaderState)
  IN IF hs.err # NoError \/ ~hs.inTrack THEN hs
     ELSE IF BuildTrackFails(hs.currentTrack) THEN [hs EXCEPT !.err = ErrTrackMissingId]
     ELSE [hs EXCEPT !.tracks = Append(@, hs.currentTrack)]

DEFAULT_TEMPO_BPM == <<"1", "2", "0">>
DEFAULT_TIME_SIGNATURE == [numerator |-> 4, denominator |-> 4]

\* parseTimeSignature: /^(\d+)\/(\d+)$/ : [ok, value]
ParseTimeSignature(value) ==
  LET n == DigitRun(value.v)
      rest == DropFirst(value.v, n)
      d == DigitRun(Tail(rest))
  IN IF value.t = "string" /\ n >= 1 /\ rest # <<>> /\ rest[1] = "/"
        /\ d >= 1 /\ d = Len(rest) - 1
     THEN [ok |-> TRUE,
           value |-> [numerator |-> DigitsToInt(Slice(value.v, 1, n)),
                      denominator |-> DigitsToInt(Tail(rest))]]
     ELSE [ok |-> FALSE, value |-> DEFAULT_TIME_SIGNATURE]

\* normalizeTimeSignature: a string is parsed; the values the header parser
\* makes are never objects with numerator and denominator, so every other
\* value throws
NormalizeTimeSignature(value) ==
  LET parsed == ParseTimeSignature(value)
  IN IF value.t = "string" /\ parsed.ok THEN [err |-> NoError, value |-> parsed.value]
     ELSE [err |-> ErrInvalidTimeSignature, value |-> DEFAULT_TIME_SIGNATURE]

\* normalizeHeader: [err, header]; the Header keeps the raw fields and the
\* normalized tempo_bpm and time_signature
NormalizeHeader(raw) ==
  LET tempo == IF ObjHas(raw, kTempoBpm) THEN ObjGet(raw, kTempoBpm) ELSE Undefined
      ts == IF ObjHas(raw, kTimeSignature)
            THEN NormalizeTimeSignature(ObjGet(raw, kTimeSignature))
            ELSE [err |-> NoError, value |-> DEFAULT_TIME_SIGNATURE]
      swing == IF ObjHas(raw, kSwing) THEN ObjGet(raw, kSwing) ELSE Undefined
      header == [fields |-> raw,
                 tempo_bpm |-> IF ObjHas(raw, kTempoBpm) THEN tempo.v ELSE DEFAULT_TEMPO_BPM,
                 time_signature |-> ts.value]
      fail(e) == [err |-> e, header |-> header]
  IN IF \E f \in StringFields : ObjHas(raw, f) /\ ObjGet(raw, f).t # "string"
     THEN fail(ErrInvalidHeaderField)
     ELSE IF ObjHas(raw, kTempoBpm)
             /\ (tempo.t # "number" \/ tempo.v = sNaN \/ tempo.v = <<"0">>)
     THEN fail(ErrInvalidTempo)
     ELSE IF ts.err # NoError THEN fail(ts.err)
     ELSE IF ObjHas(raw, kSwing)
             /\ ~(swing.t = "string" /\ swing.v \in {sNone, sEighth})
     THEN fail(ErrInvalidSwing)
     ELSE fail(NoError)

NoDocument == [header |-> <<>>, tracks |-> <<>>, measures |-> <<>>]

\* the end of parseOpenTab: the checks of format and version, of the
\* normalized header and of the body in the order of the code, and the Document
AssembleDocument(parsedHeader, normalized, body) ==
  IF parsedHeader.err # NoError THEN [err |-> parsedHeader.err, doc |-> NoDocument]
  ELSE IF parsedHeader.format # StringValue(sOpentab)
  THEN [err |-> ErrUnsupportedFormat, doc |-> NoDocument]
  ELSE IF parsedHeader.version # StringValue(sVersion01)
  THEN [err |-> ErrUnsupportedVersion, doc |-> NoDocument]
  ELSE IF normalized.err # NoError THEN [err |-> normalized.err, doc |-> NoDocument]
  ELSE IF body.err # NoError THEN [err |-> body.err, doc |-> NoDocument]
  ELSE [err |-> NoError,
        doc |-> [header |-> normalized.header, tracks |-> parsedHeader.tracks,
                 measures |-> SortByIndex(ObjValues(body.measureMap))]]

ParseSections(parsedHeader, body) ==
  AssembleDocument(parsedHeader, NormalizeHeader(parsedHeader.header), body)

\* parseOpenTab on the lines of the source: [err, doc]; err = NoError when a
\* Document is returned
ParseOpenTab(lines) ==
  LET delimiterIndex == DelimiterIndex(lines)
  IN IF delimiterIndex = 0 THEN [err |-> ErrMissingDelimiter, doc |-> NoDocument]
     ELSE ParseSections(ParseHeader(Slice(lines, 1, delimiterIndex - 1)),
                        ParseBody(Slice(lines, delimiterIndex + 1, Len(lines)),
                                  InitialParseState))

(***************************************************************************)
(* Inputs of the formatter runs.                                           *)
(***************************************************************************)
lFormat == <<"f", "o", "r", "m", "a", "t", "=", "\"", "o", "p", "e", "n", "t", "a", "b", "\"">>
lVersion == <<"v", "e", "r", "s", "i", "o", "n", "=", "\"", "0", ".", "1", "\"">>
lTracks == <<"[", "[", "t", "r", "a", "c", "k", "s", "]", "]">>
lTrackId == <<"i", "d", "=", "\"", "g", "t", "r", "1", "\"">>
lDirective == <<"@", "t", "r", "a", "c", "k", " ", "g", "t", "r", "1">>

tQuarter == <<"q">>
tRest == <<"r">>
tNote == <<"(", "6", ":", "3", ")">>
tZeroTuplet == <<"q", "/", "0">>
\* a tuplet of 10^21, the least Number that String() prints with an exponent
tHugeTuplet == <<"e", "/", "1", "0", "0", "0", "0", "0", "0", "0", "0", "0", "0", "0", "0", "0", "0", "0", "0", "0", "0", "0", "0", "0">>

FmtTokens == {tQuarter, tRest, tNote, tZeroTuplet, tHugeTuplet}

RECURSIVE SeqsUpTo(_, _)
SeqsUpTo(S, n) ==
  IF n = 0 THEN {<<>>}
  ELSE LET shorter == SeqsUpTo(S, n - 1)
       IN shorter \cup {Append(q, x) : q \in {r \in shorter : Len(r) = n - 1}, x \in S}

MeasureLineOf(index, tokens) ==
  <<"m">> \o index \o <<":", " ", "|", " ">> \o Join(tokens, <<" ">>) \o <<" ", "|">>

\* a text with a valid header, one directive and one measure line
TextOf(measureLine) == <<lFormat, lVersion, HEADER_DELIMITER, lDirective, measureLine>>

\* the texts with one measure line of at most n tokens
GeneratedTexts(n) == {TextOf(MeasureLineOf(<<"1">>, ts)) : ts \in SeqsUpTo(FmtTokens, n)}

\* hand-written texts: the shapes of lines and headers the generated texts lack
CorpusTexts ==
  { \* no delimiter
    <<<<"m", "1", ":", " ", "|", " ", "q", " ", "r", " ", "|", " ", " ">>, <<>>, <<" ", "#", " ", "c", " ">>>>,
    \* blank lines around the delimiter, a comment, trailing whitespace
    <<lFormat, <<"v", "e", "r", "s", "i", "o", "n", "=", "\"", "0", ".", "1", "\"", " ", " ">>, <<>>, <<" ">>, <<" ", "-", "-", "-", " ">>, <<>>, <<"\t">>, <<"#", " ", "r", "i", "f", "f", " ">>, <<"@", "t", "r", "a", "c", "k", " ", "g", "t", "r", "1", " ">>,
      <<"m", "1", ":", " ", "|", " ", "q", " ", "(", "6", ":", "3", ")", " ", "(", "5", ":", "5", ")", " ", "(", "4", ":", "5", ")", " ", "(", "3", ":", "3", ")", " ", "|">>, <<>>>>,
    \* a track table, a chord with inner whitespace, a technique chain
    <<lFormat, lVersion, <<"t", "e", "m", "p", "o", "_", "b", "p", "m", "=", "9", "2">>, <<>>, lTracks, lTrackId,
      <<"t", "u", "n", "i", "n", "g", "=", "[", "\"", "E", "2", "\"", ",", "\"", "A", "2", "\"", ",", "\"", "D", "3", "\"", ",", "\"", "G", "3", "\"", ",", "\"", "B", "3", "\"", ",", "\"", "E", "4", "\"", "]">>, HEADER_DELIMITER, lDirective,
      <<"m", "1", ":", " ", "|", " ", "e", " ", "(", "3", ":", "2", "h", "4", ")", " ", "(", "2", ":", "3", ")", " ", "q", " ", "[", " ", "(", "4", ":", "2", ")", " ", " ", "(", "3", ":", "2", ")", " ", "(", "2", ":", "3", ")", " ", "]", " ", "q", " ", "r", " ", "|">>>>,
    \* an inline comment after the measure
    TextOf(<<"m", "1", ":", " ", "|", " ", "q", " ", "(", "6", ":", "3", ")", " ", "(", "5", ":", "5", ")", " ", "|", " ", " ", " ", "#", " ", "r", "i", "f", "f", " ", "|", " ", "x", " ">>),
    TextOf(<<"m", "1", ":", " ", "|", " ", "q", " ", "(", "6", ":", "3", ")", " ", "(", "5", ":", "5", ")", " ", "|", "#">>),
    \* "#" inside an annotation, after a "|"
    TextOf(<<"m", "1", ":", " ", "|", " ", "q", " ", "r", "{", "a", "=", "\"", "|", "#", "\"", "}", " ", "r", " ", "|">>),
    TextOf(<<"m", "1", ":", " ", "|", " ", "q", " ", "r", "{", "a", "=", "#", "}", " ", "r", " ", "|">>),
    \* leading whitespace, tabs, no blanks around the pipes, leading zeros
    TextOf(<<" ", " ", "m", "0", "2", ":", "|", "q", "\t", "(", "6", ":", "3", ")", " ", " ", "e", ".", "/", "0", "3", " ", "(", "5", ":", "5", ")", "|", "\t">>),
    \* unbalanced brackets and stray closers
    TextOf(<<"m", "1", ":", " ", "|", " ", "q", " ", "(", "6", ":", "3", " ", "r", " ", "|">>),
    TextOf(<<"m", "1", ":", " ", "|", " ", ")", " ", "q", " ", "]", " ", "r", " ", "(", " ", "e", " ", "r", " ", "|">>),
    \* pipes inside the content, an empty measure, a single pipe
    TextOf(<<"m", "1", ":", " ", "|", " ", "q", " ", "r", " ", "|", " ", "e", " ", "r", " ", "|">>),
    TextOf(<<"m", "1", ":", " ", "|", "|">>),
    TextOf(<<"m", "1", ":", " ", "|">>),
    \* two voices of one measure, annotations
    <<lFormat, lVersion, HEADER_DELIMITER, lDirective, <<"m", "1", ":", " ", "|", " ", "q", " ", "(", "6", ":", "3", ")", "{", "p", "m", "=", "t", "r", "u", "e", ",", " ", "b", "e", "n", "d", "=", "\"", "f", "u", "l", "l", "\"", "}", " ", "r", " ", "|">>,
      <<"@", "t", "r", "a", "c", "k", " ", "g", "t", "r", "1", " ", "v", "o", "i", "c", "e", " ", "v", "2">>, <<"m", "1", ":", " ", "|", " ", "h", ".", " ", "r", " ", "q", ".", " ", "r", "{", "x", " ", "=", " ", "1", "}", " ", "|">>>>,
    \* an empty header and an empty body
    <<HEADER_DELIMITER>>,
    <<HEADER_DELIMITER, <<>>, <<"m", "1", ":", " ", "|", " ", "q", " ", "r">>, HEADER_DELIMITER, <<"m", "1", ":", " ", "|", " ", "r", " ", "|">>>>
  }

FmtInputs(n) == GeneratedTexts(n) \cup CorpusTexts

NotRun == <<>>
NotParsed == [err |-> "not parsed", doc |-> NoDocument]

(***************************************************************************)
(* MIDI encoder: tools/converters-midi/src/index.ts                        *)
(***************************************************************************)
DEFAULT_TUNING == <<<<"E", "2">>, <<"A", "2">>, <<"D", "3">>, <<"G", "3">>, <<"B", "3">>, <<"E", "4">>>>
PPQ == 480
DEFAULT_VELOCITY == 64

RECURSIVE Pow2(_)
Pow2(n) == IF n = 0 THEN 1 ELSE 2 * Pow2(n - 1)

\* Math.round of the non-negative quotient num / den
RoundQuotient(num, den) == (2 * num + den) \div (2 * den)

\* the tuplet of a Duration as a number, 0 when the field is not set
TupletOf(duration) ==
  IF duration.tuplet = <<>> THEN 0 ELSE DigitsToInt(duration.tuplet)

\* baseTicks[base] as the quotient of two integers
BaseTicks(base, ppq) ==
  CASE base = "w" -> [num |-> ppq * 4, den |-> 1]
    [] base = "h" -> [num |-> ppq * 2, den |-> 1]
    [] base = "q" -> [num |-> ppq, den |-> 1]
    [] base = "e" -> [num |-> ppq, den |-> 2]
    [] base = "s" -> [num |-> ppq, den |-> 4]
    [] base = "t" -> [num |-> ppq, den |-> 8]

\* durationToTicks: base ticks times the dot factor (2^(dots+1) - 1) / 2^dots,
\* times 2 / tuplet when the tuplet is set and not 0, rounded, at least 1.
\* The products are exact for the durations of the model.
DurationToTicks(duration, ppq) ==
  LET base == BaseTicks(duration.base, ppq)
      tuplet == TupletOf(duration)
      num == base.num * (Pow2(duration.dots + 1) - 1) * (IF tuplet # 0 THEN 2 ELSE 1)
      den == base.den * Pow2(duration.dots) * (IF tuplet # 0 THEN tuplet ELSE 1)
  IN Max(1, RoundQuotient(num, den))

NoPitch == [ok |-> FALSE, midi |-> 0]

\* baseMap[letter.toUpperCase()]
PitchClass(letter) ==
  CASE letter \in {"C", "c"} -> 0
    [] letter \in {"D", "d"} -> 2
    [] letter \in {"E", "e"} -> 4
    [] letter \in {"F", "f"} -> 5
    [] letter \in {"G", "g"} -> 7
    [] letter \in {"A", "a"} -> 9
    [] letter \in {"B", "b"} -> 11

\* parsePitch: /^([A-Ga-g])([#b]?)(-?\d+)$/ on the trimmed text; null is
\* ok = FALSE
ParsePitch(note) ==
  LET text == Trim(note)
      accidental == IF Len(text) >= 2 /\ text[2] \in {"#", "b"} THEN text[2] ELSE ""
      octaveRaw == DropFirst(text, IF accidental = "" THEN 1 ELSE 2)
      negative == octaveRaw # <<>> /\ octaveRaw[1] = "-"
      digits == IF negative THEN Tail(octaveRaw) ELSE octaveRaw
      octave == IF negative THEN 0 - DigitsToInt(digits) ELSE DigitsToInt(digits)
      accidentalOffset == IF accidental = "#" THEN 1 ELSE IF accidental = "b" THEN -1 ELSE 0
      midi == (octave + 1) * 12 + PitchClass(text[1]) + accidentalOffset
  IN IF \/ text = <<>>
        \/ text[1] \notin {"A", "B", "C", "D", "E", "F", "G",
                           "a", "b", "c", "d", "e", "f", "g"}
        \/ digits = <<>>
        \/ DigitRun(digits) # Len(digits)
     THEN NoPitch
     ELSE IF midi < 0 \/ midi > 127 THEN NoPitch
     ELSE [ok |-> TRUE, midi |-> midi]

\* track.tuning ?? DEFAULT_TUNING and track.capo ?? 0, the capo a number
\* written in digits
TrackTuning(track) ==
  IF track.tuning.t = "undefined" THEN DEFAULT_TUNING
  ELSE [i \in 1..Len(track.tuning.items) |-> track.tuning.items[i].v]
TrackCapo(track) ==
  IF track.capo.t = "undefined" THEN 0 ELSE DigitsToInt(track.capo.v)

\* resolveStringPitch: [ok, midi]
ResolveStringPitch(track, noteRef) ==
  LET tuning == TrackTuning(track)
      tuningIndex == noteRef.string - 1
      basePitch == ParsePitch(tuning[tuningIndex + 1])
      pitch == basePitch.midi + noteRef.fret + TrackCapo(track)
  IN IF tuningIndex < 0 \/ tuningIndex >= Len(tuning) THEN NoPitch
     ELSE IF ~basePitch.ok THEN NoPitch
     ELSE IF pitch < 0 \/ pitch > 127 THEN NoPitch
     ELSE [ok |-> TRUE, midi |-> pitch]

\* a MidiEvent; the note fields of a meta event are 0
NoteOn(tick, pitch, channel) ==
  [tick |-> tick, type |-> "noteOn", noteNumber |-> pitch, channel |-> channel,
   velocity |-> DEFAULT_VELOCITY]
NoteOff(tick, pitch, channel) ==
  [tick |-> tick, type |-> "noteOff", noteNumber |-> pitch, channel |-> channel,
   velocity |-> DEFAULT_VELOCITY]
MetaEvent(tick, type) ==
  [tick |-> tick, type |-> type, noteNumber |-> 0, channel |-> 0, velocity |-> 0]

\* the note-on and the note-off pushed for a note, none when its pitch does
\* not resolve
NotePair(pitch, cursor, durationTicks, channel) ==
  IF pitch.ok
  THEN <<NoteOn(cursor, pitch.midi, channel),
         NoteOff(cursor + durationTicks, pitch.midi, channel)>>
  ELSE <<>>

\* the notes of one event pushed at the cursor
RECURSIVE PushNotes(_, _, _, _, _, _)
PushNotes(track, channel, noteRefs, cursor, durationTicks, events) ==
  IF noteRefs = <<>> THEN events
  ELSE PushNotes(track, channel, Tail(noteRefs), cursor, durationTicks,
                 events \o NotePair(ResolveStringPitch(track, Head(noteRefs)),
                                    cursor, durationTicks, channel))

\* an event whose notes were all dropped leaves the cursor where it was
CollectEventSkipping(track, channel, event, durationTicks, cursor, events) ==
  [cursor |-> IF event.type # "rest" /\ \A n \in 1..Len(event.notes) :
                   ~ResolveStringPitch(track, event.notes[n]).ok
              THEN cursor ELSE cursor + durationTicks,
   events |-> IF event.type = "rest" THEN events
              ELSE PushNotes(track, channel, event.notes, cursor, durationTicks, events)]

\* one event of a voice at the cursor: [cursor, events]
CollectEvent(track, channel, event, durationTicks, cursor, events) ==
  [cursor |-> cursor + durationTicks,
   events |-> IF event.type = "rest" THEN events
              ELSE PushNotes(track, channel, event.notes, cursor, durationTicks, events)]

\* the loop over the events of one voice: [cursor, events]
RECURSIVE CollectVoice(_, _, _, _)
CollectVoice(track, channel, voiceEvents, voice) ==
  IF voiceEvents = <<>> THEN voice
  ELSE CollectVoice(track, channel, Tail(voiceEvents),
                    CollectEvent(track, channel, Head(voiceEvents),
                                 DurationToTicks(Head(voiceEvents).duration, PPQ),
                                 voice.cursor, voice.events))

\* the end of a voice: maxVoiceEnd raised to its cursor
EndVoice(maxVoiceEnd, voice) ==
  [maxVoiceEnd |-> IF voice.cursor > maxVoiceEnd THEN voice.cursor ELSE maxVoiceEnd,
   events |-> voice.events]

\* the loop over the voices of one track measure: [maxVoiceEnd, events]
RECURSIVE CollectVoices(_, _, _, _, _)
CollectVoices(track, channel, voices, measureStart, collected) ==
  IF voices = <<>> THEN collected
  ELSE CollectVoices(track, channel, Tail(voices), measureStart,
                     EndVoice(collected.maxVoiceEnd,
                              CollectVoice(track, channel, Head(voices),
                                           [cursor |-> measureStart,
                                            events |-> collected.events])))

\* expectedMeasureTicks = PPQ * numerator * (4 / denominator)
ExpectedMeasureTicks(document) ==
  (PPQ * document.header.time_signature.numerator * 4)
    \div document.header.time_signature.denominator

\* a measure end that advances measureStart by the expected ticks only
EndMeasureExpected(document, measureStart, collected) ==
  [measureStart |-> measureStart + ExpectedMeasureTicks(document),
   events |-> collected.events]

\* the end of a measure the track has an entry in: measureStart advanced by
\* the longer of the expected ticks and the longest voice
EndMeasure(document, measureStart, collected) ==
  [measureStart |-> measureStart + Max(ExpectedMeasureTicks(document),
                                       collected.maxVoiceEnd - measureStart),
   events |-> collected.events]

\* one iteration of the loop over the measures in collectNotes:
\* [measureStart, events]
CollectMeasure(document, track, channel, measure, measureStart, events) ==
  IF ~ObjHas(measure.tracks, track.id.v)
  THEN [measureStart |-> measureStart + ExpectedMeasureTicks(document),
        events |-> events]
  ELSE EndMeasure(document, measureStart,
                  CollectVoices(track, channel,
                                ObjValues(ObjGet(measure.tracks, track.id.v).voices),
                                measureStart,
                                [maxVoiceEnd |-> measureStart, events |-> events]))

\* the loop over the measures: the events collected
RECURSIVE CollectMeasures(_, _, _, _, _)
CollectMeasures(document, track, channel, measures, step) ==
  IF measures = <<>> THEN step.events
  ELSE CollectMeasures(document, track, channel, Tail(measures),
                       CollectMeasure(document, track, channel, Head(measures),
                                      step.measureStart, step.events))

\* collectNotes
CollectNotes(document, track, channel) ==
  CollectMeasures(document, track, channel, document.measures,
                  [measureStart |-> 0, events |-> <<>>])

\* a sort weight that puts the note-ons of a tick before its note-offs
SortWeightOnFirst(event) ==
  IF event.type = "tempo" \/ event.type = "timeSignature" THEN 0
  ELSE IF event.type = "noteOn" THEN 1 ELSE 2

\* sortWeight
SortWeight(event) ==
  IF event.type = "tempo" \/ event.type = "timeSignature" THEN 0
  ELSE IF event.type = "noteOff" THEN 1 ELSE 2

\* the comparator of combined.sort: negative, zero or positive
CompareEvents(a, b) ==
  IF a.tick # b.tick THEN a.tick - b.tick ELSE SortWeight(a) - SortWeight(b)

\* Array.prototype.sort with the comparator, which is stable
RECURSIVE InsertEvent(_, _)
InsertEvent(sorted, event) ==
  IF sorted = <<>> THEN <<event>>
  ELSE IF CompareEvents(sorted[Len(sorted)], event) <= 0 THEN Append(sorted, event)
  ELSE Append(InsertEvent(Slice(sorted, 1, Len(sorted) - 1), event), sorted[Len(sorted)])

RECURSIVE SortEvents(_)
SortEvents(events) ==
  IF events = <<>> THEN <<>>
  ELSE InsertEvent(SortEvents(Slice(events, 1, Len(events) - 1)), events[Len(events)])

\* a MidiTrackEvent; data holds microsecondsPerBeat of a set-tempo event and
\* numerator, denominator, metronome, thirtyseconds of a time signature
TrackEvent(deltaTime, type, subtype, event, data) ==
  [deltaTime |-> deltaTime, type |-> type, subtype |-> subtype,
   channel |-> event.channel, noteNumber |-> event.noteNumber,
   velocity |-> event.velocity, data |-> data]

EndOfTrack ==
  [deltaTime |-> 0, type |-> "meta", subtype |-> "endOfTrack",
   channel |-> 0, noteNumber |-> 0, velocity |-> 0, data |-> <<>>]

\* the loop over the sorted events: each with the delta to the one before
RECURSIVE DeltaEvents(_, _, _, _)
DeltaEvents(document, combined, lastTick, trackEvents) ==
  IF combined = <<>> THEN trackEvents
  ELSE LET event == Head(combined)
           deltaTime == event.tick - lastTick
           timeSignature == document.header.time_signature
           written ==
             IF event.type = "tempo"
             THEN TrackEvent(deltaTime, "meta", "setTempo", event,
                    <<RoundQuotient(60000000, DigitsToInt(document.header.tempo_bpm))>>)
             ELSE IF event.type = "timeSignature"
             THEN TrackEvent(deltaTime, "meta", "timeSignature", event,
                    <<timeSignature.numerator, timeSignature.denominator, 24, 8>>)
             ELSE TrackEvent(deltaTime, "channel", event.type, event, <<>>)
       IN DeltaEvents(document, Tail(combined), event.tick, Append(trackEvents, written))

\* buildTrackEvents from the collected note events on: the meta events in
\* front, the sort, the delta times, the end of track
TrackEventsOf(document, noteEvents) ==
  LET metaEvents == <<MetaEvent(0, "tempo"), MetaEvent(0, "timeSignature")>>
      combined == SortEvents(metaEvents \o noteEvents)
  IN Append(DeltaEvents(document, combined, 0, <<>>), EndOfTrack)

\* buildTrackEvents
BuildTrackEvents(document, track, channel) ==
  TrackEventsOf(document, CollectNotes(document, track, channel))

\* the MidiFileData handed to writeMidi
MidiFileData(tracks) ==
  [header |-> [format |-> IF Len(tracks) > 1 THEN 1 ELSE 0,
               numTracks |-> Len(tracks),
               ticksPerBeat |-> PPQ],
   tracks |-> tracks]

\* toMidi, up to the call of writeMidi
ToMidi(document) ==
  MidiFileData([index \in 1..Len(document.tracks) |->
                  BuildTrackEvents(document, document.tracks[index], (index - 1) % 16)])

(***************************************************************************)
(* Documents for the encoders, in the shape parseOpenTab returns.          *)
(***************************************************************************)
\* most measures of a Document for the encoders
MaxMeasures == 2

DurationOf(base, dots, tuplet) == [base |-> base, dots |-> dots, tuplet |-> tuplet]
NoteRefOf(string, fret) == [string |-> string, fret |-> fret, inlineTechniques |-> <<>>]

dQuarter == DurationOf("q", 0, <<>>)
dHalf == DurationOf("h", 0, <<>>)
dWhole == DurationOf("w", 0, <<>>)
dDottedHalf == DurationOf("h", 1, <<>>)
dEighthTriplet == DurationOf("e", 0, <<"3">>)

sGtr1 == <<"g", "t", "r", "1">>
sBass == <<"b", "a", "s", "s">>
sV2 == <<"v", "2">>

\* the voices a track can hold in one measure
vLowOpen == <<[k |-> sV1, v |-> <<NoteEvent(dQuarter, NoteRefOf(6, 0), <<>>)>>]>>
vHighOpen ==
  <<[k |-> sV1, v |-> <<NoteEvent(dQuarter, NoteRefOf(1, 0), <<>>),
                        NoteEvent(dEighthTriplet, NoteRefOf(1, 0), <<>>)>>]>>
vHighTwelve == <<[k |-> sV1, v |-> <<NoteEvent(dHalf, NoteRefOf(1, 12), <<>>)>>]>>
vTwoVoices ==
  <<[k |-> sV1, v |-> <<RestEvent(dQuarter, <<>>),
                        NoteEvent(dQuarter, NoteRefOf(5, 5), <<>>)>>],
    [k |-> sV2, v |-> <<NoteEvent(dQuarter, NoteRefOf(6, 3), <<>>)>>]>>
\* voice v2 written before voice v1
vSecondFirst ==
  <<[k |-> sV2, v |-> <<NoteEvent(dHalf, NoteRefOf(6, 3), <<>>)>>],
    [k |-> sV1, v |-> <<NoteEvent(dWhole, NoteRefOf(5, 5), <<>>),
                        RestEvent(dQuarter, <<>>)>>]>>
vWholeChord ==
  <<[k |-> sV1, v |-> <<ChordEvent(dWhole, <<NoteRefOf(4, 2), NoteRefOf(3, 12)>>, <<>>)>>]>>
\* notes on a string no tuning has, on string 2, far up string 3, on string 1
vNoSuchString ==
  <<[k |-> sV1, v |-> <<NoteEvent(dQuarter, NoteRefOf(7, 0), <<>>),
                        NoteEvent(dQuarter, NoteRefOf(2, 0), <<>>),
                        NoteEvent(dQuarter, NoteRefOf(3, 90), <<>>),
                        NoteEvent(dQuarter, NoteRefOf(1, 0), <<>>)>>]>>
vFull == <<[k |-> sV1, v |-> <<NoteEvent(dDottedHalf, NoteRefOf(4, 0), <<>>)>>]>>

\* <<>> stands for a measure without an entry for the track
GtrVoices ==
  {<<>>, vLowOpen, vHighOpen, vHighTwelve, vTwoVoices, vSecondFirst, vWholeChord,
   vNoSuchString}
BassVoices == {<<>>, vFull}

GtrTrack(capo) ==
  [id |-> StringValue(sGtr1), name |-> Undefined, instrument |-> Undefined,
   tuning |-> ArrayValue([i \in 1..Len(DEFAULT_TUNING) |-> StringValue(DEFAULT_TUNING[i])]),
   capo |-> capo]
BassTrack ==
  [id |-> StringValue(sBass), name |-> Undefined, instrument |-> Undefined,
   tuning |-> Undefined, capo |-> Undefined]
\* a track of three strings, the second with a tuning entry that is no pitch
OddTrack ==
  [id |-> StringValue(sGtr1), name |-> Undefined, instrument |-> Undefined,
   tuning |-> ArrayValue(<<StringValue(<<"E", "2">>), StringValue(<<"x">>),
                           StringValue(<<"D", "3">>)>>),
   capo |-> Undefined]

TrackLists ==
  {<<GtrTrack(c)>> : c \in {NumberValue(<<"0">>), NumberValue(<<"2">>)}}
    \cup {<<GtrTrack(Undefined), BassTrack>>, <<OddTrack>>}

TimeSignatures ==
  {[numerator |-> 4, denominator |-> 4], [numerator |-> 3, denominator |-> 4]}

\* the entries of a measure: one per track that has voices in it
MeasureTracks(gtr, bass) ==
  (IF gtr = <<>> THEN <<>> ELSE <<[k |-> sGtr1, v |-> [voices |-> gtr]]>>)
    \o (IF bass = <<>> THEN <<>> ELSE <<[k |-> sBass, v |-> [voices |-> bass]]>>)

\* measures 1..k for the k up to n, in index order as parseOpenTab leaves them
MeasureLists(withBass, n) ==
  LET contents == {MeasureTracks(g, b) : g \in GtrVoices,
                                         b \in IF withBass THEN BassVoices ELSE {<<>>}}
  IN {[i \in 1..Len(q) |-> [index |-> i, tracks |-> q[i]]] :
        q \in SeqsUpTo(contents, n) \ {<<>>}}

\* the Documents of at most n measures
Documents(n) ==
  UNION {{[header |-> [fields |-> <<>>, tempo_bpm |-> DEFAULT_TEMPO_BPM,
                       time_signature |-> ts],
           tracks |-> tracks, measures |-> measures] :
            ts \in TimeSignatures, measures \in MeasureLists(Len(tracks) > 1, n)} :
         tracks \in TrackLists}

(***************************************************************************)
(* The runs that are not under way.                                        *)
(***************************************************************************)
FmtIdle ==
  /\ fsrc = NotRun
  /\ fout1 = NotRun
  /\ fout2 = NotRun
  /\ fdoc1 = NotParsed
  /\ fdoc2 = NotParsed
  /\ fpc = "idle"

ParseIdle ==
  /\ plines = <<>>
  /\ pstate = InitialParseState
  /\ pmeasures = <<>>
  /\ ppc = "idle"

NoMidiFile == MidiFileData(<<>>)

MidiIdle ==
  /\ mdoc = NoDocument
  /\ mtrack = 0
  /\ mmeasure = 0
  /\ mstart = 0
  /\ mnotes = <<>>
  /\ mout = <<>>
  /\ mfile = NoMidiFile
  /\ mpc = "idle"


NoDurationRun == [base |-> "", dots |-> 0, tuplet |-> <<>>]

DurIdle ==
  /\ dduration = NoDurationRun
  /\ dticks = 0
  /\ ddivisions = 0
  /\ dpc = "idle"

XmlIdle ==
  /\ xdoc = NoDocument
  /\ xtrack = 0
  /\ xmeasure = 0
  /\ xpart = <<>>
  /\ xparts = <<>>
  /\ xpc = "idle"

AsciiIdle ==
  /\ adoc = NoDocument
  /\ atrack = 0
  /\ ameasure = 0
  /\ aout = <<>>
  /\ apc = "idle"

ImpIdle ==
  /\ itext = <<>>
  /\ ioption = "undefined"
  /\ imeta = <<>>
  /\ iblocks = <<>>
  /\ iwarnings = <<>>
  /\ ituning = <<>>
  /\ ibody = <<>>
  /\ inext = 0
  /\ imeasure = 0
  /\ iotab = NotRun
  /\ idoc = NotParsed
  /\ ipc = "idle"

ValIdle ==
  /\ vtext = <<>>
  /\ vdiags = <<>>
  /\ vnext = 0
  /\ vsaw = FALSE
  /\ vreported = FALSE
  /\ vpc = "idle"

HdrIdle ==
  /\ htext = <<>>
  /\ hresult = NotParsed
  /\ hpc = "idle"

ToolIdle == ImpIdle /\ ValIdle /\ HdrIdle
EncoderIdle == DurIdle /\ XmlIdle /\ AsciiIdle
\* the runs declared after the MIDI run are not under way
LaterIdle == EncoderIdle /\ ToolIdle
EarlyIdle == FmtIdle /\ ParseIdle /\ MidiIdle
\* the runs other than one are not under way
RestIdleDur == EarlyIdle /\ XmlIdle /\ AsciiIdle /\ ToolIdle
RestIdleXml == EarlyIdle /\ DurIdle /\ AsciiIdle /\ ToolIdle
RestIdleAscii == EarlyIdle /\ DurIdle /\ XmlIdle /\ ToolIdle
RestIdleImp == EarlyIdle /\ EncoderIdle /\ ValIdle /\ HdrIdle
RestIdleVal == EarlyIdle /\ EncoderIdle /\ ImpIdle /\ HdrIdle
RestIdleHdr == EarlyIdle /\ EncoderIdle /\ ImpIdle /\ ValIdle

(***************************************************************************)
(* The formatter run: format the text, format the result again, parse both *)
(* the text and the result.                                                *)
(***************************************************************************)
FmtInit ==
  /\ fsrc \in FmtInputs(MaxTokens)
  /\ fout1 = NotRun
  /\ fout2 = NotRun
  /\ fdoc1 = NotParsed
  /\ fdoc2 = NotParsed
  /\ fpc = "start"
  /\ ParseIdle
  /\ MidiIdle
  /\ LaterIdle

Format ==
  /\ fpc = "start"
  /\ fout1' = FormatOtab(fsrc)
  /\ fpc' = "formatted"
  /\ UNCHANGED <<fsrc, fout2, fdoc1, fdoc2, parseVars, midiVars, laterVars>>

Reformat ==
  /\ fpc = "formatted"
  /\ fout2' = FormatOtab(fout1)
  /\ fpc' = "reformatted"
  /\ UNCHANGED <<fsrc, fout1, fdoc1, fdoc2, parseVars, midiVars, laterVars>>

ParseSource ==
  /\ fpc = "reformatted"
  /\ fdoc1' = ParseOpenTab(fsrc)
  /\ fpc' = "source parsed"
  /\ UNCHANGED <<fsrc, fout1, fout2, fdoc2, parseVars, midiVars, laterVars>>

ParseFormatted ==
  /\ fpc = "source parsed"
  /\ fdoc2' = ParseOpenTab(fout1)
  /\ fpc' = "done"
  /\ UNCHANGED <<fsrc, fout1, fout2, fdoc1, parseVars, midiVars, laterVars>>

FmtNext == Format \/ Reformat \/ ParseSource \/ ParseFormatted

SpecFormat == FmtInit /\ [][FmtNext]_vars

(***************************************************************************)
(* The parser run: the body loop of parseOpenTab, one line per step, the   *)
(* lines drawn from BodyLines; then the measures are sorted and returned.  *)
(***************************************************************************)
lTrackGtr == <<"@", "t", "r", "a", "c", "k", " ", "g", "t", "r", "1">>
lTrackGtrV2 == <<"@", "t", "r", "a", "c", "k", " ", "g", "t", "r", "1", " ", "v", "o", "i", "c", "e", " ", "v", "2">>
lTrackBass == <<" ", "@", "t", "r", "a", "c", "k", " ", " ", "b", "a", "s", "s", " ">>
lCarry == <<"m", "1", ":", " ", "|", " ", "q", " ", "(", "6", ":", "3", ")", " ", "(", "5", ":", "5", ")", " ", "e", " ", "r", " ", "|">>
lChord == <<"m", "1", ":", " ", "|", " ", "h", " ", "[", " ", "(", "4", ":", "2", ")", " ", "(", "3", ":", "2", ")", " ", "]", " ", "|">>
lDotted == <<"m", "2", ":", " ", "|", " ", "e", ".", " ", "r", " ", "q", "/", "3", " ", "(", "1", ":", "0", "h", "2", ")", " ", "|">>
lNoDuration == <<"m", "2", ":", " ", "|", " ", "(", "6", ":", "3", ")", " ", "q", " ", "r", " ", "|">>
lComment == <<"#", " ", "m", "1", ":", " ", "|", " ", "q", " ", "r", " ", "|">>
lNoPipes == <<"m", "1", ":", " ", "q", " ", "r">>

BodyLines ==
  {lTrackGtr, lTrackGtrV2, lTrackBass, lCarry, lChord, lDotted, lNoDuration,
   lComment, lNoPipes}

ParseInit ==
  /\ plines = <<>>
  /\ pstate = InitialParseState
  /\ pmeasures = <<>>
  /\ ppc = "body"
  /\ FmtIdle
  /\ MidiIdle
  /\ LaterIdle

\* one iteration of the body loop; an error ends the run without a Document
ReadBodyLine ==
  /\ ppc = "body"
  /\ Len(plines) < MaxLines
  /\ \E line \in BodyLines :
       /\ plines' = Append(plines, line)
       /\ pstate' = ParseBodyLine(line, pstate)
       /\ ppc' = IF pstate'.err # NoError THEN "failed" ELSE "body"
  /\ UNCHANGED <<pmeasures, fmtVars, midiVars, laterVars>>

\* the end of the body: the measures sorted by index
ReturnDocument ==
  /\ ppc = "body"
  /\ pmeasures' = SortByIndex(ObjValues(pstate.measureMap))
  /\ ppc' = "done"
  /\ UNCHANGED <<plines, pstate, fmtVars, midiVars, laterVars>>

ParseNext == ReadBodyLine \/ ReturnDocument

SpecParse == ParseInit /\ [][ParseNext]_vars

(***************************************************************************)
(* The MIDI run: toMidi on a Document, track by track; the notes of a      *)
(* track are collected measure by measure, then the track is built.        *)
(***************************************************************************)
MidiInit ==
  /\ mdoc \in Documents(MaxMeasures)
  /\ mtrack = 1
  /\ mmeasure = 1
  /\ mstart = 0
  /\ mnotes = <<>>
  /\ mout = <<>>
  /\ mfile = NoMidiFile
  /\ mpc = "collect"
  /\ FmtIdle
  /\ ParseIdle
  /\ LaterIdle

\* one iteration of the loop over the measures in collectNotes
CollectNextMeasure ==
  /\ mpc = "collect"
  /\ mmeasure <= Len(mdoc.measures)
  /\ \E step \in {CollectMeasure(mdoc, mdoc.tracks[mtrack], (mtrack - 1) % 16,
                                   mdoc.measures[mmeasure], mstart, mnotes)} :
       /\ mstart' = step.measureStart
       /\ mnotes' = step.events
  /\ mmeasure' = mmeasure + 1
  /\ UNCHANGED <<mdoc, mtrack, mout, mfile, mpc, fmtVars, parseVars, laterVars>>

\* the rest of buildTrackEvents, and the step of toMidi to the next track
BuildTrack ==
  /\ mpc = "collect"
  /\ mmeasure > Len(mdoc.measures)
  /\ mout' = Append(mout, TrackEventsOf(mdoc, mnotes))
  /\ mnotes' = <<>>
  /\ mstart' = 0
  /\ IF mtrack < Len(mdoc.tracks)
     THEN /\ mtrack' = mtrack + 1
          /\ mmeasure' = 1
          /\ mpc' = "collect"
     ELSE /\ mpc' = "write"
          /\ UNCHANGED <<mtrack, mmeasure>>
  /\ UNCHANGED <<mdoc, mfile, fmtVars, parseVars, laterVars>>

\* the header and the tracks handed to writeMidi
WriteMidi ==
  /\ mpc = "write"
  /\ mfile' = MidiFileData(mout)
  /\ mpc' = "done"
  /\ UNCHANGED <<mdoc, mtrack, mmeasure, mstart, mnotes, mout, fmtVars, parseVars, laterVars>>

MidiNext == CollectNextMeasure \/ BuildTrack \/ WriteMidi

SpecMidi == MidiInit /\ [][MidiNext]_vars

(***************************************************************************)
(* MusicXML encoder: tools/converters-musicxml/src/index.ts                *)
(***************************************************************************)
DEFAULT_DIVISIONS == 480

\* baseDivisions[base] as the quotient of two integers
BaseDivisions(base, divisions) ==
  CASE base = "w" -> [num |-> divisions * 4, den |-> 1]
    [] base = "h" -> [num |-> divisions * 2, den |-> 1]
    [] base = "q" -> [num |-> divisions, den |-> 1]
    [] base = "e" -> [num |-> divisions, den |-> 2]
    [] base = "s" -> [num |-> divisions, den |-> 4]
    [] base = "t" -> [num |-> divisions, den |-> 8]

\* the quotient cut off where Math.round should round it
DurationToDivisionsFloor(duration, divisions) ==
  LET base == BaseDivisions(duration.base, divisions)
      tuplet == TupletOf(duration)
      num == base.num * (Pow2(duration.dots + 1) - 1) * (IF tuplet # 0 THEN 2 ELSE 1)
      den == base.den * Pow2(duration.dots) * (IF tuplet # 0 THEN tuplet ELSE 1)
  IN Max(1, num \div den)

\* durationToDivisions: base divisions times the dot factor, times 2 / tuplet
\* when the tuplet is set and not 0, rounded, at least 1
DurationToDivisions(duration, divisions) ==
  LET base == BaseDivisions(duration.base, divisions)
      tuplet == TupletOf(duration)
      num == base.num * (Pow2(duration.dots + 1) - 1) * (IF tuplet # 0 THEN 2 ELSE 1)
      den == base.den * Pow2(duration.dots) * (IF tuplet # 0 THEN tuplet ELSE 1)
  IN Max(1, RoundQuotient(num, den))

(***************************************************************************)
(* The duration run: one Duration through durationToTicks of the MIDI      *)
(* encoder and durationToDivisions of the MusicXML encoder.                 *)
(***************************************************************************)
\* largest tuplet of the range of tuplets converted
MaxTuplet == 7
\* most dots of a Duration
MaxDots == 2

\* tuplets past the range: the shortest note under them is below half a tick
LargeTuplets == {241, 1000}

Durations(n) ==
  {DurationOf(base, dots, tuplet) :
     base \in DurationBases, dots \in 0..MaxDots,
     tuplet \in {<<>>} \cup {IntToString(k) : k \in (1..n) \cup LargeTuplets}}

DurInit ==
  /\ dduration \in Durations(MaxTuplet)
  /\ dticks = 0
  /\ ddivisions = 0
  /\ dpc = "ticks"
  /\ RestIdleDur

\* collectNotes: const durationTicks = durationToTicks(event.duration)
ConvertToTicks ==
  /\ dpc = "ticks"
  /\ dticks' = DurationToTicks(dduration, PPQ)
  /\ dpc' = "divisions"
  /\ UNCHANGED <<dduration, ddivisions, restDur>>

\* renderEvent: const duration = durationToDivisions(event.duration)
ConvertToDivisions ==
  /\ dpc = "divisions"
  /\ ddivisions' = DurationToDivisions(dduration, DEFAULT_DIVISIONS)
  /\ dpc' = "done"
  /\ UNCHANGED <<dduration, dticks, restDur>>

DurNext == ConvertToTicks \/ ConvertToDivisions

SpecDuration == DurInit /\ [][DurNext]_vars

(***************************************************************************)
(* MusicXML encoder: the elements of a part.  An element is written as     *)
(* the record of what its lines hold.                                       *)
(***************************************************************************)
NoPitchParts == [step |-> "", alter |-> 0, octave |-> 0]

\* midiToPitchParts, for the pitches 0..127
MidiToPitchParts(midi) ==
  [step |-> CASE midi % 12 \in {0, 1} -> "C"
              [] midi % 12 \in {2, 3} -> "D"
              [] midi % 12 = 4 -> "E"
              [] midi % 12 \in {5, 6} -> "F"
              [] midi % 12 \in {7, 8} -> "G"
              [] midi % 12 \in {9, 10} -> "A"
              [] midi % 12 = 11 -> "B",
   alter |-> IF midi % 12 \in {1, 3, 6, 8, 10} THEN 1 ELSE 0,
   octave |-> (midi \div 12) - 1]

\* <measure number="..."> and </measure>
MeasureOpen(number) ==
  [tag |-> "measure", number |-> number, rest |-> FALSE, chord |-> FALSE,
   pitch |-> NoPitchParts, duration |-> 0, voice |-> 0, string |-> 0, fret |-> 0]
MeasureClose ==
  [tag |-> "/measure", number |-> 0, rest |-> FALSE, chord |-> FALSE,
   pitch |-> NoPitchParts, duration |-> 0, voice |-> 0, string |-> 0, fret |-> 0]
\* <attributes> and the tempo <direction> of the first measure
AttributesElement ==
  [tag |-> "attributes", number |-> 0, rest |-> FALSE, chord |-> FALSE,
   pitch |-> NoPitchParts, duration |-> 0, voice |-> 0, string |-> 0, fret |-> 0]
DirectionElement ==
  [tag |-> "direction", number |-> 0, rest |-> FALSE, chord |-> FALSE,
   pitch |-> NoPitchParts, duration |-> 0, voice |-> 0, string |-> 0, fret |-> 0]
\* <note> with <rest/>
RestElement(duration, voiceNumber) ==
  [tag |-> "note", number |-> 0, rest |-> TRUE, chord |-> FALSE,
   pitch |-> NoPitchParts, duration |-> duration, voice |-> voiceNumber,
   string |-> 0, fret |-> 0]
\* <note> with <pitch>, <chord/> when it is a later note of a chord
NoteElement(pitch, noteRef, duration, voiceNumber, isChord) ==
  [tag |-> "note", number |-> 0, rest |-> FALSE, chord |-> isChord,
   pitch |-> pitch, duration |-> duration, voice |-> voiceNumber,
   string |-> noteRef.string, fret |-> noteRef.fret]
\* <backup>
BackupElement(duration) ==
  [tag |-> "backup", number |-> 0, rest |-> FALSE, chord |-> FALSE,
   pitch |-> NoPitchParts, duration |-> duration, voice |-> 0, string |-> 0, fret |-> 0]

\* renderRest: [xml, duration]
RenderRest(duration, divisions, voiceNumber) ==
  [xml |-> <<RestElement(DurationToDivisions(duration, divisions), voiceNumber)>>,
   duration |-> DurationToDivisions(duration, divisions)]

\* renderNote with the pitch resolved: [xml, duration]
RenderPitched(pitch, noteRef, duration, divisions, voiceNumber, isChord) ==
  IF ~pitch.ok
  THEN IF isChord THEN [xml |-> <<>>, duration |-> 0]
       ELSE RenderRest(duration, divisions, voiceNumber)
  ELSE [xml |-> <<NoteElement(MidiToPitchParts(pitch.midi), noteRef,
                              DurationToDivisions(duration, divisions),
                              voiceNumber, isChord)>>,
        duration |-> DurationToDivisions(duration, divisions)]

\* renderNote; resolveStringPitch is the one of the MIDI encoder, followed by
\* midiToPitchParts
RenderNote(track, noteRef, duration, divisions, voiceNumber, isChord) ==
  RenderPitched(ResolveStringPitch(track, noteRef), noteRef, duration, divisions,
                voiceNumber, isChord)

\* renderEvent: the RenderNotes of an event
RenderEvent(track, event, divisions, voiceNumber) ==
  IF event.type = "rest"
  THEN <<RenderRest(event.duration, divisions, voiceNumber)>>
  ELSE IF event.type = "note"
  THEN <<RenderNote(track, event.notes[1], event.duration, divisions, voiceNumber, FALSE)>>
  ELSE [index \in 1..Len(event.notes) |->
          RenderNote(track, event.notes[index], event.duration, divisions,
                     voiceNumber, index > 1)]

\* the lines of the RenderNotes of one event, in order
RECURSIVE RenderedXml(_)
RenderedXml(rendered) ==
  IF rendered = <<>> THEN <<>>
  ELSE Head(rendered).xml \o RenderedXml(Tail(rendered))

\* the sum of the durations of the events of a voice
RECURSIVE VoiceDuration(_, _)
VoiceDuration(events, divisions) ==
  IF events = <<>> THEN 0
  ELSE DurationToDivisions(Head(events).duration, divisions)
         + VoiceDuration(Tail(events), divisions)

\* the loop of resolveMeasureDuration; maxDuration is held as the numerator
\* over timeSignature.denominator
RECURSIVE LongestVoice(_, _, _, _)
LongestVoice(voices, divisions, denominator, maxDuration) ==
  IF voices = <<>> THEN maxDuration
  ELSE LongestVoice(Tail(voices), divisions, denominator,
                    Max(maxDuration,
                        VoiceDuration(Head(voices), divisions) * denominator))

\* resolveMeasureDuration
ResolveMeasureDuration(measureEvents, divisions, timeSignature) ==
  RoundQuotient(LongestVoice(ObjValues(measureEvents), divisions,
                             timeSignature.denominator,
                             divisions * timeSignature.numerator * 4),
                timeSignature.denominator)

\* a voice that ends before the measure is filled up with a rest that is too
\* short by one division
PadShortVoiceLess(elements, duration, measureDuration, voiceNumber) ==
  IF duration < measureDuration
  THEN Append(elements, RestElement(measureDuration - duration - 1, voiceNumber))
  ELSE elements

\* the rest that fills a voice up to the measure duration
PadShortVoice(elements, duration, measureDuration, voiceNumber) ==
  IF duration < measureDuration
  THEN Append(elements, RestElement(measureDuration - duration, voiceNumber))
  ELSE elements

\* renderVoiceEvents: [xml, duration]
RECURSIVE RenderVoiceEvents(_, _, _, _, _)
RenderVoiceEvents(track, events, divisions, voiceNumber, rendered) ==
  IF events = <<>> THEN rendered
  ELSE RenderVoiceEvents(track, Tail(events), divisions, voiceNumber,
         [xml |-> rendered.xml
                    \o RenderedXml(RenderEvent(track, Head(events), divisions, voiceNumber)),
          duration |-> rendered.duration
                         + DurationToDivisions(Head(events).duration, divisions)])

\* the code units of the characters of ids, in their order
CodeUnitOrder ==
  <<"-", "0", "1", "2", "3", "4", "5", "6", "7", "8", "9",
    "A", "B", "C", "D", "E", "F", "G", "H", "I", "J", "K", "L", "M",
    "N", "O", "P", "Q", "R", "S", "T", "U", "V", "W", "X", "Y", "Z", "_",
    "a", "b", "c", "d", "e", "f", "g", "h", "i", "j", "k", "l", "m",
    "n", "o", "p", "q", "r", "s", "t", "u", "v", "w", "x", "y", "z">>
CodeUnit(char) == CHOOSE i \in 1..Len(CodeUnitOrder) : CodeUnitOrder[i] = char

\* a < b in the order of Array.prototype.sort without a comparator
RECURSIVE StringLess(_, _)
StringLess(a, b) ==
  IF b = <<>> THEN FALSE
  ELSE IF a = <<>> THEN TRUE
  ELSE IF Head(a) # Head(b) THEN CodeUnit(Head(a)) < CodeUnit(Head(b))
  ELSE StringLess(Tail(a), Tail(b))

RECURSIVE InsertString(_, _)
InsertString(sorted, string) ==
  IF sorted = <<>> THEN <<string>>
  ELSE IF ~StringLess(string, sorted[Len(sorted)]) THEN Append(sorted, string)
  ELSE Append(InsertString(Slice(sorted, 1, Len(sorted) - 1), string),
              sorted[Len(sorted)])

\* Object.keys(voices).sort()
RECURSIVE SortStrings(_)
SortStrings(strings) ==
  IF strings = <<>> THEN <<>>
  ELSE InsertString(SortStrings(Slice(strings, 1, Len(strings) - 1)),
                    strings[Len(strings)])

\* one voice of a measure: its events, the rest that fills it up
RenderVoice(rendered, measureDuration, voiceNumber) ==
  PadShortVoice(rendered.xml, rendered.duration, measureDuration, voiceNumber)

\* the loop over voiceIds in renderPartMeasures
RECURSIVE RenderVoices(_, _, _, _, _, _)
RenderVoices(track, voices, voiceIds, voiceIndex, measureDuration, output) ==
  IF voiceIndex >= Len(voiceIds) THEN output
  ELSE RenderVoices(track, voices, voiceIds, voiceIndex + 1, measureDuration,
         output
           \o RenderVoice(RenderVoiceEvents(track, ObjGet(voices, voiceIds[voiceIndex + 1]),
                                            DEFAULT_DIVISIONS, voiceIndex + 1,
                                            [xml |-> <<>>, duration |-> 0]),
                          measureDuration, voiceIndex + 1)
           \o (IF voiceIndex < Len(voiceIds) - 1
               THEN <<BackupElement(measureDuration)>> ELSE <<>>))

\* the notes of a measure: one rest when the track has no voice in it
MeasureNotes(track, voices, measureDuration) ==
  IF voices = <<>>
  THEN <<RestElement(measureDuration, 1)>>
  ELSE RenderVoices(track, voices, SortStrings(ObjKeys(voices)), 0, measureDuration, <<>>)

\* trackMeasure?.voices ?? {}
TrackVoices(measure, track) ==
  IF ObjHas(measure.tracks, track.id.v)
  THEN ObjGet(measure.tracks, track.id.v).voices
  ELSE <<>>

\* one iteration of document.measures.forEach in renderPartMeasures; index
\* counts from 0
RenderPartMeasure(document, track, measure, index) ==
  <<MeasureOpen(measure.index)>>
    \o (IF index = 0 THEN <<AttributesElement, DirectionElement>> ELSE <<>>)
    \o MeasureNotes(track, TrackVoices(measure, track),
                    ResolveMeasureDuration(TrackVoices(measure, track),
                                           DEFAULT_DIVISIONS,
                                           document.header.time_signature))
    \o <<MeasureClose>>

(***************************************************************************)
(* The MusicXML run: toMusicXml on a Document, one measure of one part at  *)
(* a time.                                                                  *)
(***************************************************************************)
XmlInit ==
  /\ xdoc \in Documents(MaxMeasures)
  /\ xtrack = 1
  /\ xmeasure = 1
  /\ xpart = <<>>
  /\ xparts = <<>>
  /\ xpc = "render"
  /\ RestIdleXml

\* one iteration of document.measures.forEach
RenderNextMeasure ==
  /\ xpc = "render"
  /\ xmeasure <= Len(xdoc.measures)
  /\ xpart' = xpart \o RenderPartMeasure(xdoc, xdoc.tracks[xtrack],
                                         xdoc.measures[xmeasure], xmeasure - 1)
  /\ xmeasure' = xmeasure + 1
  /\ UNCHANGED <<xdoc, xtrack, xparts, xpc, restXml>>

\* the end of renderPartMeasures: the part is pushed
EndPart ==
  /\ xpc = "render"
  /\ xmeasure > Len(xdoc.measures)
  /\ xparts' = Append(xparts, xpart)
  /\ xpart' = <<>>
  /\ IF xtrack < Len(xdoc.tracks)
     THEN /\ xtrack' = xtrack + 1
          /\ xmeasure' = 1
          /\ xpc' = "render"
     ELSE /\ xpc' = "join"
          /\ UNCHANGED <<xtrack, xmeasure>>
  /\ UNCHANGED <<xdoc, restXml>>

\* output.join: the text is returned
ReturnXml ==
  /\ xpc = "join"
  /\ xpc' = "done"
  /\ UNCHANGED <<xdoc, xtrack, xmeasure, xpart, xparts, restXml>>

XmlNext == RenderNextMeasure \/ EndPart \/ ReturnXml

SpecMusicXml == XmlInit /\ [][XmlNext]_vars

(***************************************************************************)
(* ASCII encoder: tools/converters-ascii/src/index.ts                      *)
(***************************************************************************)
DEFAULT_STRING_COUNT == 6

\* "-".repeat(width) and String.prototype.padEnd
Repeat(char, width) == [i \in 1..width |-> char]
PadEnd(string, width, char) ==
  IF Len(string) >= width THEN string
  ELSE string \o Repeat(char, width - Len(string))

\* track.tuning && track.tuning.length > 0
HasTuning(track) == track.tuning.t # "undefined" /\ track.tuning.items # <<>>

\* the largest string of the notes of a sequence of events, at least maxString
RECURSIVE MaxStringOfNotes(_, _)
MaxStringOfNotes(notes, maxString) ==
  IF notes = <<>> THEN maxString
  ELSE MaxStringOfNotes(Tail(notes), Max(maxString, Head(notes).string))
RECURSIVE MaxStringOfEvents(_, _)
MaxStringOfEvents(events, maxString) ==
  IF events = <<>> THEN maxString
  ELSE MaxStringOfEvents(Tail(events), MaxStringOfNotes(Head(events).notes, maxString))
RECURSIVE MaxStringOfVoices(_, _)
MaxStringOfVoices(voices, maxString) ==
  IF voices = <<>> THEN maxString
  ELSE MaxStringOfVoices(Tail(voices), MaxStringOfEvents(Head(voices), maxString))
RECURSIVE MaxStringOfMeasures(_, _, _)
MaxStringOfMeasures(measures, track, maxString) ==
  IF measures = <<>> THEN maxString
  ELSE MaxStringOfMeasures(Tail(measures), track,
         MaxStringOfVoices(ObjValues(TrackVoices(Head(measures), track)), maxString))

\* maxString || DEFAULT_STRING_COUNT
OrDefaultCount(maxString) == IF maxString = 0 THEN DEFAULT_STRING_COUNT ELSE maxString

\* getTrackStringCount
GetTrackStringCount(track, document) ==
  IF HasTuning(track) THEN Len(track.tuning.items)
  ELSE OrDefaultCount(MaxStringOfMeasures(document.measures, track, 0))

\* array.reverse(): the array itself is reversed and returned
ReversedInPlace(array) ==
  [result |-> [i \in 1..Len(array) |-> array[Len(array) + 1 - i]],
   array |-> [i \in 1..Len(array) |-> array[Len(array) + 1 - i]]]

\* [...array].reverse(): the reversed copy that is returned, and the array
\* as the call leaves it
ReversedCopy(array) ==
  [result |-> [i \in 1..Len(array) |-> array[Len(array) + 1 - i]],
   array |-> array]

\* getLineLabels
GetLineLabels(track, stringCount) ==
  IF HasTuning(track)
  THEN [i \in 1..Len(track.tuning.items) |-> ReversedCopy(track.tuning.items).result[i].v]
  ELSE [index \in 1..stringCount |-> <<"S">> \o IntToString(index)]

\* the track as the call of getLineLabels leaves it
TrackAfterLabels(track) ==
  IF HasTuning(track)
  THEN [track EXCEPT !.tuning.items = ReversedCopy(track.tuning.items).array]
  ELSE track

\* noteToSegment; lineIndex counts from 0
NoteToSegment(note, width, lineIndex) ==
  IF lineIndex = note.string - 1
  THEN PadEnd(IntToString(note.fret), width, "-")
  ELSE Repeat("-", width)

\* Math.max(...widths, 1)
RECURSIVE ChordWidth(_, _)
ChordWidth(chord, width) ==
  IF chord = <<>> THEN width
  ELSE ChordWidth(Tail(chord), Max(width, Len(IntToString(Head(chord).fret))))

\* the segment of a chord on one line: the first note of the chord on the
\* string of the line, dashes when there is none
ChordSegment(chord, width, lineIndex) ==
  IF \E n \in 1..Len(chord) : chord[n].string = lineIndex + 1
  THEN PadEnd(IntToString(chord[CHOOSE n \in 1..Len(chord) :
                                  /\ chord[n].string = lineIndex + 1
                                  /\ \A o \in 1..(n - 1) :
                                       chord[o].string # lineIndex + 1].fret),
              width, "-")
  ELSE Repeat("-", width)

RenderChordSegments(chord, stringCount) ==
  [line \in 1..stringCount |-> ChordSegment(chord, ChordWidth(chord, 1), line - 1)]

\* renderEventSegments: one segment per line
RenderEventSegments(event, stringCount) ==
  IF event.type = "rest" THEN [line \in 1..stringCount |-> <<"-">>]
  ELSE IF event.type = "note"
  THEN [line \in 1..stringCount |->
          NoteToSegment(event.notes[1], Len(IntToString(event.notes[1].fret)), line - 1)]
  ELSE RenderChordSegments(event.notes, stringCount)

\* events.forEach in renderMeasure; index counts from 0
RECURSIVE AppendSegments(_, _, _, _)
AppendSegments(events, index, stringCount, segments) ==
  IF index >= Len(events) THEN segments
  ELSE AppendSegments(events, index + 1, stringCount,
         [line \in 1..stringCount |->
            segments[line]
              \o RenderEventSegments(events[index + 1], stringCount)[line]
              \o (IF index = Len(events) - 1 THEN <<>> ELSE <<"-">>)])

\* renderMeasure
RenderMeasure(events, stringCount) ==
  IF events = <<>> THEN [line \in 1..stringCount |-> <<"-">>]
  ELSE AppendSegments(events, 0, stringCount, [line \in 1..stringCount |-> <<>>])

\* trackMeasure?.voices?.v1 ?? []
VoiceOne(measure, track) ==
  IF ObjHas(TrackVoices(measure, track), sV1)
  THEN ObjGet(TrackVoices(measure, track), sV1)
  ELSE <<>>

\* the lines pushed for one measure: `// mN` and the labelled rows
MeasureLines(measureIndex, lines, lineLabels) ==
  <<<<"/", "/", " ", "m">> \o IntToString(measureIndex)>>
    \o [lineIndex \in 1..Len(lines) |->
          PadEnd(lineLabels[lineIndex], 3, " ") \o <<"|">> \o lines[lineIndex] \o <<"|">>]

\* `# Track: ${track.name ?? track.id}`
TrackHeaderLine(track) ==
  <<"#", " ", "T", "r", "a", "c", "k", ":", " ">>
    \o (IF track.name.t = "undefined" THEN track.id.v ELSE track.name.v)

(***************************************************************************)
(* The ASCII run: toAsciiTab on a Document, one measure of one track at a  *)
(* time.                                                                    *)
(***************************************************************************)
AsciiInit ==
  /\ adoc \in Documents(MaxMeasures)
  /\ atrack = 1
  /\ ameasure = 0
  /\ aout = <<>>
  /\ apc = "track"
  /\ RestIdleAscii

\* the start of a track in toAsciiTab: getLineLabels, and the header line
PushTrackHeader ==
  /\ apc = "track"
  /\ adoc' = [adoc EXCEPT !.tracks[atrack] = TrackAfterLabels(adoc.tracks[atrack])]
  /\ aout' = Append(aout, TrackHeaderLine(adoc.tracks[atrack]))
  /\ ameasure' = 1
  /\ apc' = "measures"
  /\ UNCHANGED <<atrack, restAscii>>

\* one measure of the track: rendered by renderTrackMeasures, pushed by the
\* loop over measures in toAsciiTab
PushMeasure ==
  /\ apc = "measures"
  /\ ameasure <= Len(adoc.measures)
  /\ \E stringCount \in {GetTrackStringCount(adoc.tracks[atrack], adoc)} :
       aout' = aout \o MeasureLines(adoc.measures[ameasure].index,
                                    RenderMeasure(VoiceOne(adoc.measures[ameasure],
                                                           adoc.tracks[atrack]),
                                                  stringCount),
                                    GetLineLabels(adoc.tracks[atrack], stringCount))
  /\ ameasure' = ameasure + 1
  /\ UNCHANGED <<adoc, atrack, apc, restAscii>>

\* the end of a track: the next one, or the text is joined and returned
EndAsciiTrack ==
  /\ apc = "measures"
  /\ ameasure > Len(adoc.measures)
  /\ IF atrack < Len(adoc.tracks)
     THEN /\ atrack' = atrack + 1
          /\ apc' = "track"
     ELSE /\ apc' = "done"
          /\ UNCHANGED atrack
  /\ UNCHANGED <<adoc, ameasure, aout, restAscii>>

AsciiNext == PushTrackHeader \/ PushMeasure \/ EndAsciiTrack

SpecAscii == AsciiInit /\ [][AsciiNext]_vars

(***************************************************************************)
(* ASCII tab importer: tools/importers/ascii/src/index.ts                  *)
(* Columns are the 0-based columns of the code; positions in a line of the *)
(* model are 1-based.                                                      *)
(***************************************************************************)
SUPPORTED_TECHNIQUES == {"h", "p", "/", "\\"}

UpperCase ==
  <<"A", "B", "C", "D", "E", "F", "G", "H", "I", "J", "K", "L", "M",
    "N", "O", "P", "Q", "R", "S", "T", "U", "V", "W", "X", "Y", "Z">>
LowerCase ==
  <<"a", "b", "c", "d", "e", "f", "g", "h", "i", "j", "k", "l", "m",
    "n", "o", "p", "q", "r", "s", "t", "u", "v", "w", "x", "y", "z">>

ToLowerCase(c) ==
  IF \E i \in 1..Len(UpperCase) : UpperCase[i] = c
  THEN LowerCase[CHOOSE i \in 1..Len(UpperCase) : UpperCase[i] = c] ELSE c

ToUpperCase(c) ==
  IF \E i \in 1..Len(LowerCase) : LowerCase[i] = c
  THEN UpperCase[CHOOSE i \in 1..Len(LowerCase) : LowerCase[i] = c] ELSE c

\* [A-G] and [A-Ga-g]
IsChordLetter(c) == c \in {"A", "B", "C", "D", "E", "F", "G"}
IsPitchLetter(c) == IsChordLetter(c) \/ c \in {"a", "b", "c", "d", "e", "f", "g"}
IsAccidental(c) == c \in {"#", "b"}

\* the characters /^([A-Ga-g])([#b]?)(\d?)/ takes after a first pitch letter
PitchTokenLength(s) ==
  LET a == IF Len(s) >= 2 /\ IsAccidental(s[2]) THEN 2 ELSE 1
  IN IF Len(s) > a /\ IsDigit(s[a + 1]) THEN a + 1 ELSE a

\* isTabRowLine: /^([A-Ga-g])([#b]?)(\d?)\s*\|/ on the right-trimmed line
\* (the last test, for a character of a tab, holds of the "|")
IsTabRowLine(line) ==
  LET trimmed == TrimEnd(line)
      rest == TrimStart(DropFirst(trimmed, PitchTokenLength(trimmed)))
  IN trimmed # <<>> /\ IsPitchLetter(trimmed[1]) /\ rest # <<>> /\ rest[1] = "|"

\* parseTabRow: /^\s*([^|]+)\|(.*)$/
ParseTabRow(line) ==
  LET trimmed == TrimEnd(line)
      bar == IndexOf(trimmed, "|")
  IN IF bar >= 2
     THEN [label |-> Trim(Slice(trimmed, 1, bar - 1)), content |-> DropFirst(trimmed, bar)]
     ELSE [label |-> <<>>, content |-> <<>>]

\* isSectionHeader: /^\[(.+?)\]$/ on the trimmed line; the trimmed name, <<>>
\* for null (and for the empty name, which the callers treat alike)
IsSectionHeader(line) ==
  LET trimmed == Trim(line)
  IN IF Len(trimmed) >= 3 /\ trimmed[1] = "[" /\ trimmed[Len(trimmed)] = "]"
     THEN Trim(Unwrap(trimmed)) ELSE <<>>

\* \b before position p of s
WordBoundary(s, p) ==
  (p > 1 /\ IsWordChar(s[p - 1])) # (p <= Len(s) /\ IsWordChar(s[p]))

HasAt(s, p, word) ==
  p + Len(word) - 1 <= Len(s) /\ SubSeq(s, p, p + Len(word) - 1) = word

ChordQualities ==
  {<<"m">>, <<"m", "a", "j">>, <<"m", "i", "n">>, <<"d", "i", "m">>, <<"a", "u", "g">>, <<"s", "u", "s">>, <<"a", "d", "d">>}

\* the positions at which a match of
\* [A-G](?:#|b)?(?:m|maj|min|dim|aug|sus|add)?\d*(?:\/[A-G](?:#|b)?)? that
\* starts at position i can end (the position after its last character)
ChordEnds(s, i) ==
  LET accidental(p) == IF p <= Len(s) /\ IsAccidental(s[p]) THEN {p + 1} ELSE {}
      p1 == {i + 1} \cup accidental(i + 1)
      p2 == p1 \cup UNION {{p + Len(w) : w \in {v \in ChordQualities : HasAt(s, p, v)}} : p \in p1}
      p3 == UNION {{p + k : k \in 0..DigitRun(DropFirst(s, p - 1))} : p \in p2}
      bass == {p \in p3 : p + 1 <= Len(s) /\ s[p] = "/" /\ IsChordLetter(s[p + 1])}
  IN p3 \cup UNION {{p + 2} \cup accidental(p + 2) : p \in bass}

\* chordRegex has a match in s
HasChordMatch(s) ==
  \E i \in 1..Len(s) :
    /\ IsChordLetter(s[i])
    /\ WordBoundary(s, i)
    /\ \E p \in ChordEnds(s, i) : WordBoundary(s, p)

\* isChordLine
IsChordLine(line) ==
  LET trimmed == Trim(line)
  IN /\ trimmed # <<>>
     /\ IndexOf(trimmed, "|") = 0
     /\ IndexOf(trimmed, ":") = 0
     /\ HasChordMatch(trimmed)

\* normalizeToken: /^([A-Ga-g])([#b]?)(\d?)$/ : [ok, cleaned]
NormalizeToken(token) ==
  IF token # <<>> /\ IsPitchLetter(token[1]) /\ PitchTokenLength(token) = Len(token)
  THEN [ok |-> TRUE, cleaned |-> <<ToUpperCase(token[1])>> \o Tail(token)]
  ELSE [ok |-> FALSE, cleaned |-> <<>>]

(***************************************************************************)
(* warn of importAsciiTab: the warnings in the order recorded.  A message  *)
(* is its text and the value put into it.                                  *)
(***************************************************************************)
Message(text) == [text |-> text, value |-> <<>>]
MessageWith(text, value) == [text |-> text, value |-> value]

WarnAgain(warnings, message) == Append(warnings, message)

Warn(warnings, message) ==
  IF \E i \in 1..Len(warnings) : warnings[i] = message THEN warnings
  ELSE Append(warnings, message)

WarnIf(condition, warnings, message) ==
  IF condition THEN Warn(warnings, message) ELSE warnings

\* fallback[index] ?? fallback[fallback.length - 1]
FallbackToken(fallback, index) ==
  IF index <= Len(fallback) THEN fallback[index] ELSE fallback[Len(fallback)]

\* /\d+$/ : the digits at the end of s
RECURSIVE TrailingDigits(_)
TrailingDigits(s) ==
  IF s # <<>> /\ IsDigit(s[Len(s)])
  THEN Append(TrailingDigits(Slice(s, 1, Len(s) - 1)), s[Len(s)]) ELSE <<>>

ApplyDefaultOctave(token, fallbackToken) ==
  LET n == NormalizeToken(token)
  IN IF ~n.ok THEN fallbackToken
     ELSE IF IsDigit(n.cleaned[Len(n.cleaned)]) THEN n.cleaned
     ELSE n.cleaned \o TrailingDigits(fallbackToken)

RECURSIVE WarnUnrecognized(_, _)
WarnUnrecognized(tokens, warnings) ==
  IF tokens = <<>> THEN warnings
  ELSE WarnUnrecognized(Tail(tokens),
         WarnIf(~NormalizeToken(Head(tokens)).ok, warnings,
                MessageWith("Unrecognized tuning token: \"${token}\". Using default.",
                            Head(tokens))))

\* applyDefaultOctaves: [tuning, warnings]
ApplyDefaultOctaves(tokens, fallback, warnings) ==
  [tuning |-> [i \in 1..Len(tokens) |->
                 ApplyDefaultOctave(tokens[i], FallbackToken(fallback, i))],
   warnings |-> WarnUnrecognized(tokens, warnings)]

\* buildDefaultTuning
BuildDefaultTuning(stringCount, defaultTuning) ==
  IF stringCount <= Len(defaultTuning) THEN Slice(defaultTuning, 1, stringCount)
  ELSE defaultTuning \o [i \in 1..(stringCount - Len(defaultTuning)) |-> <<"E", "4">>]

\* value.split(/\s+/).filter(Boolean)
RECURSIVE SplitWords(_)
SplitWords(s) ==
  LET t == TrimStart(s)
      n == IF \E i \in 1..Len(t) : IsSpace(t[i])
           THEN (CHOOSE i \in 1..Len(t) : IsSpace(t[i]) /\ \A j \in 1..(i - 1) : ~IsSpace(t[j])) - 1
           ELSE Len(t)
  IN IF t = <<>> THEN <<>> ELSE <<Slice(t, 1, n)>> \o SplitWords(DropFirst(t, n))

\* /^<word>\s*[:=]\s*(.+)$/i on a trimmed line: [ok, value]
MatchField(trimmed, word) ==
  LET r == TrimStart(DropFirst(trimmed, Len(word)))
      value == IF r # <<>> /\ r[1] \in {":", "="} THEN TrimStart(Tail(r)) ELSE <<>>
  IN IF Len(trimmed) >= Len(word)
        /\ Map1(ToLowerCase, Slice(trimmed, 1, Len(word))) = word
        /\ value # <<>>
     THEN [ok |-> TRUE, value |-> value]
     ELSE [ok |-> FALSE, value |-> <<>>]

\* /no\s*capo/i.test(value)
SaysNoCapo(value) ==
  \E i \in 1..Len(value) :
    /\ HasAt(Map1(ToLowerCase, value), i, <<"n", "o">>)
    /\ HasAt(Map1(ToLowerCase, TrimStart(DropFirst(value, i + 1))), 1, <<"c", "a", "p", "o">>)

\* value.replace(/[^0-9]/g, "")
DigitsOnly(s) == SelectSeq(s, IsDigit)

\* ParsedMetadata: title, key and tuning are <<>> while undefined, capo is
\* Undefined or a number (Number of at most 15 digits is finite)
NoMetadata == [title |-> <<>>, tuning |-> <<>>, capo |-> Undefined, key |-> <<>>]

\* one iteration of the loop of parseMetadata
ParseMetadataLine(line, meta) ==
  LET trimmed == Trim(line)
      tuningMatch == MatchField(trimmed, <<"t", "u", "n", "i", "n", "g">>)
      capoMatch == MatchField(trimmed, <<"c", "a", "p", "o">>)
      keyMatch == MatchField(trimmed, <<"k", "e", "y">>)
      titleMatch == MatchField(trimmed, <<"t", "i", "t", "l", "e">>)
  IN IF trimmed = <<>> THEN meta
     ELSE IF IsSectionHeader(trimmed) # <<>> THEN meta
     ELSE IF tuningMatch.ok
     THEN IF SplitWords(tuningMatch.value) # <<>>
          THEN [meta EXCEPT !.tuning = SplitWords(tuningMatch.value)] ELSE meta
     ELSE IF capoMatch.ok
     THEN [meta EXCEPT !.capo =
             IF SaysNoCapo(capoMatch.value) THEN NumberValue(<<"0">>)
             ELSE NumberValue(NumberOfText(DigitsOnly(capoMatch.value)))]
     ELSE IF keyMatch.ok THEN [meta EXCEPT !.key = keyMatch.value]
     ELSE IF titleMatch.ok THEN [meta EXCEPT !.title = titleMatch.value]
     ELSE IF meta.title = <<>> /\ ~IsChordLine(trimmed) THEN [meta EXCEPT !.title = trimmed]
     ELSE meta

RECURSIVE ParseMetadataFrom(_, _)
ParseMetadataFrom(scanLines, meta) ==
  IF scanLines = <<>> THEN meta
  ELSE ParseMetadataFrom(Tail(scanLines), ParseMetadataLine(Head(scanLines), meta))

\* lines.findIndex(isTabRowLine); 0 when absent (JS: -1)
FirstTabIndex(lines) ==
  IF \E i \in 1..Len(lines) : IsTabRowLine(lines[i])
  THEN CHOOSE i \in 1..Len(lines) :
         IsTabRowLine(lines[i]) /\ \A j \in 1..(i - 1) : ~IsTabRowLine(lines[j])
  ELSE 0

\* parseMetadata: the lines before the first tab row
ParseMetadata(lines) ==
  LET firstTabIndex == FirstTabIndex(lines)
  IN ParseMetadataFrom(IF firstTabIndex = 0 THEN lines
                       ELSE Slice(lines, 1, firstTabIndex - 1), NoMetadata)

\* the tab rows that follow one another from lines[index]
RECURSIVE TabRowRun(_, _)
TabRowRun(lines, index) ==
  IF index <= Len(lines) /\ IsTabRowLine(lines[index])
  THEN 1 + TabRowRun(lines, index + 1) ELSE 0

\* the loop of detectTabBlocks from lines[index];
\* st = [blocks, currentSection, pendingChordLine, warnings]
RECURSIVE DetectFrom(_, _, _)
DetectFrom(lines, index, st) ==
  IF index > Len(lines) THEN st
  ELSE LET line == lines[index]
           n == TabRowRun(lines, index)
           block == [rows |-> [k \in 1..n |-> ParseTabRow(lines[index + k - 1])],
                     section |-> st.currentSection,
                     chordLine |-> st.pendingChordLine]
       IN IF IsSectionHeader(line) # <<>>
          THEN DetectFrom(lines, index + 1,
                 [st EXCEPT !.currentSection = IsSectionHeader(line),
                            !.pendingChordLine = <<>>])
          ELSE IF IsChordLine(line)
          THEN DetectFrom(lines, index + 1, [st EXCEPT !.pendingChordLine = Trim(line)])
          ELSE IF n = 0
          THEN DetectFrom(lines, index + 1,
                 IF Trim(line) # <<>> THEN [st EXCEPT !.pendingChordLine = <<>>] ELSE st)
          ELSE DetectFrom(lines, index + n,
                 [st EXCEPT !.blocks = Append(@, block),
                            !.pendingChordLine = <<>>,
                            !.warnings =
                              WarnIf(n # 6, @,
                                MessageWith("Detected tab block with ${rows.length} strings. Importing best effort.",
                                            IntToString(n)))])

\* detectTabBlocks: [blocks, warnings]
DetectTabBlocks(lines, warnings) ==
  DetectFrom(lines, 1, [blocks |-> <<>>, currentSection |-> <<>>,
                        pendingChordLine |-> <<>>, warnings |-> warnings])

\* normalizeRowContent
NormalizeRowContent(content) ==
  [i \in 1..Len(content) |-> IF IsSpace(content[i]) THEN "-" ELSE content[i]]

\* the positions of "|" in a row, ascending
BarPositions(row) == SelectSeq([i \in 1..Len(row) |-> i], LAMBDA i : row[i] = "|")

\* row.replace(/\|/g, "")
WithoutBars(row) == SelectSeq(row, LAMBDA char : char # "|")

RECURSIVE MaxOf(_)
MaxOf(numbers) ==
  IF numbers = <<>> THEN 0 ELSE Max(numbers[Len(numbers)], MaxOf(Slice(numbers, 1, Len(numbers) - 1)))

\* the reduce of splitMeasures: the first row with the most separators
ReferenceIndex(barPositions) ==
  CHOOSE i \in 1..Len(barPositions) :
    /\ \A j \in 1..Len(barPositions) : Len(barPositions[j]) <= Len(barPositions[i])
    /\ \A j \in 1..(i - 1) : Len(barPositions[j]) < Len(barPositions[i])

\* the slices of the rows between the boundaries, "|" removed
MeasureSlices(padded, boundaries) ==
  [i \in 1..(Len(boundaries) - 1) |->
     [r \in 1..Len(padded) |->
        WithoutBars(Slice(padded[r], boundaries[i] + 1,
                          Min(boundaries[i + 1] - 1, Len(padded[r]))))]]

\* splitMeasures after the rows are normalized: [measures, warnings]
SplitNormalized(normalized, lengths, warnings) ==
  LET maxLength == MaxOf(lengths)
      barPositions == [r \in 1..Len(normalized) |->
                         BarPositions(PadEnd(normalized[r], maxLength, "-"))]
      referenceIndex == ReferenceIndex(barPositions)
      referencePositions == barPositions[referenceIndex]
      referenceLength == lengths[referenceIndex]
      trim == referenceLength > 0 /\ maxLength > referenceLength
      padded == [r \in 1..Len(normalized) |->
                   IF trim
                   THEN Slice(PadEnd(normalized[r], referenceLength, "-"), 1, referenceLength)
                   ELSE PadEnd(normalized[r], maxLength, "-")]
      hasMisalignedBars == \E r \in 1..Len(barPositions) : barPositions[r] # referencePositions
      sortedBars == IF referencePositions[Len(referencePositions)] < referenceLength
                    THEN Append(referencePositions, referenceLength + 1)
                    ELSE referencePositions
      w1 == WarnIf(\E r \in 1..Len(lengths) : lengths[r] # lengths[1], warnings,
                   Message("Tab row lengths differ; padding shorter rows for alignment."))
      w2 == WarnIf(trim, w1,
                   Message("Extra trailing columns detected; trimming to reference row length."))
  IN IF referencePositions = <<>>
     THEN [measures |-> <<[r \in 1..Len(padded) |-> WithoutBars(padded[r])]>>,
           warnings |-> Warn(w2, Message("No measure separators detected; treating entire block as one measure."))]
     ELSE [measures |-> MeasureSlices(padded, <<0>> \o sortedBars),
           warnings |-> WarnIf(hasMisalignedBars, w2,
                          Message("Measure separators are misaligned across strings; aligning to reference row."))]

\* splitMeasures
SplitMeasures(rows, warnings) ==
  SplitNormalized([r \in 1..Len(rows) |-> NormalizeRowContent(rows[r].content)],
                  [r \in 1..Len(rows) |-> Len(rows[r].content)], warnings)

kBend == <<"b", "e", "n", "d">>
kBendTo == <<"b", "e", "n", "d", "_", "t", "o">>
kGhost == <<"g", "h", "o", "s", "t">>
kRhythm == <<"r", "h", "y", "t", "h", "m">>
sUnknown == <<"u", "n", "k", "n", "o", "w", "n">>

\* the loop of parseNoteRef of the importer from line[index]:
\* [ref, annotations, nextIndex]
RECURSIVE NoteRefLoop(_, _, _, _)
NoteRefLoop(line, index, ref, annotations) ==
  LET char == line[index]
      n == DigitRun(DropFirst(line, index))
      digits == Slice(line, index + 1, index + n)
      stop == [ref |-> ref, annotations |-> annotations, nextIndex |-> index]
  IN IF index > Len(line) THEN stop
     ELSE IF char = "~" THEN NoteRefLoop(line, index + 1, Append(ref, "~"), annotations)
     ELSE IF char \in SUPPORTED_TECHNIQUES
     THEN IF n = 0 THEN stop
          ELSE NoteRefLoop(line, index + 1 + n, ref \o <<char>> \o digits, annotations)
     ELSE IF char = "b"
     THEN IF n > 0
          THEN NoteRefLoop(line, index + 1 + n, ref,
                           ObjSet(annotations, kBendTo, NumberValue(NumberOfDigits(digits))))
          ELSE NoteRefLoop(line, index + 1, ref, ObjSet(annotations, kBend, BooleanValue(sTrue)))
     ELSE stop

\* parseNoteRef of the importer; start and end are positions of the model
\* (the digits are line[start..end - 1])
ImpParseNoteRef(line, start, end, ghost) ==
  LET found == NoteRefLoop(line, end, Slice(line, start, end - 1), <<>>)
      index == found.nextIndex
  IN IF ~ghost THEN found
     ELSE [ref |-> found.ref,
           annotations |-> ObjSet(found.annotations, kGhost, BooleanValue(sTrue)),
           nextIndex |-> IF index <= Len(line) /\ line[index] = ")" THEN index + 1 ELSE index]

DetectedNote(column, string, parsed) ==
  [column |-> column, string |-> string, ref |-> parsed.ref, annotations |-> parsed.annotations]

\* the first position from `column` on that holds a digit or "(", the only
\* characters at which the loop of scanMeasure does more than step on;
\* Len(line) + 1 when there is none
NextNoteStart(line, column) ==
  IF \E p \in column..Len(line) : IsDigit(line[p]) \/ line[p] = "("
  THEN CHOOSE p \in column..Len(line) :
         /\ IsDigit(line[p]) \/ line[p] = "("
         /\ \A q \in column..(p - 1) : ~(IsDigit(line[q]) \/ line[q] = "(")
  ELSE Len(line) + 1

\* the while loop of scanMeasure over one line, from position `column`
RECURSIVE ScanLine(_, _, _, _)
ScanLine(line, stringNumber, column, notes) ==
  LET char == line[column]
      ghostEnd == column + 1 + DigitRun(DropFirst(line, column))
      isGhost == /\ char = "("
                 /\ ghostEnd > column + 1
                 /\ ghostEnd <= Len(line)
                 /\ line[ghostEnd] = ")"
      ghost == ImpParseNoteRef(line, column + 1, ghostEnd, TRUE)
      plain == ImpParseNoteRef(line, column, column + DigitRun(DropFirst(line, column - 1)), FALSE)
  IN IF column > Len(line) THEN notes
     ELSE IF isGhost
     THEN ScanLine(line, stringNumber, ghost.nextIndex,
                   Append(notes, DetectedNote(column, stringNumber, ghost)))
     ELSE IF IsDigit(char)
     THEN ScanLine(line, stringNumber, plain.nextIndex,
                   Append(notes, DetectedNote(column - 1, stringNumber, plain)))
     ELSE ScanLine(line, stringNumber, NextNoteStart(line, column + 1), notes)

\* the for loop of scanMeasure over the lines
RECURSIVE ScanLines(_, _, _, _, _)
ScanLines(padded, stringCount, lineIndex, width, notes) ==
  IF lineIndex > Len(padded) THEN notes
  ELSE ScanLines(padded, stringCount, lineIndex + 1, width,
         ScanLine(PadEnd(padded[lineIndex], width, "-"),
                  stringCount - (lineIndex - 1), 1, notes))

\* scanMeasure: [notes, warnings]
ScanMeasure(slices, stringCount, warnings) ==
  LET notes == ScanLines(slices, stringCount, 1,
                         MaxOf([r \in 1..Len(slices) |-> Len(slices[r])]), <<>>)
  IN [notes |-> notes,
      warnings |-> WarnIf(notes = <<>>, warnings, Message("No notes detected in a measure."))]

\* [...notes].sort((a, b) => a.column - b.column): a stable sort
RECURSIVE SortByColumn(_)
SortByColumn(items) ==
  IF items = <<>> THEN <<>>
  ELSE LET sorted == SortByColumn(Slice(items, 1, Len(items) - 1))
           item == items[Len(items)]
           k == Cardinality({i \in 1..Len(sorted) : sorted[i].column <= item.column})
       IN Slice(sorted, 1, k) \o <<item>> \o DropFirst(sorted, k)

\* [...group].sort((a, b) => b.string - a.string): a stable sort
RECURSIVE SortByStringDescending(_)
SortByStringDescending(notes) ==
  IF notes = <<>> THEN <<>>
  ELSE LET sorted == SortByStringDescending(Slice(notes, 1, Len(notes) - 1))
           note == notes[Len(notes)]
           k == Cardinality({i \in 1..Len(sorted) : sorted[i].string >= note.string})
       IN Slice(sorted, 1, k) \o <<note>> \o DropFirst(sorted, k)

\* the loop of groupChordEvents over the sorted notes
RECURSIVE GroupFrom(_, _)
GroupFrom(sorted, groups) ==
  IF sorted = <<>> THEN groups
  ELSE LET note == Head(sorted)
           last == groups[Len(groups)]
           distance == IF note.column >= last[1].column THEN note.column - last[1].column
                       ELSE last[1].column - note.column
       IN IF groups # <<>> /\ distance <= 1
          THEN GroupFrom(Tail(sorted), [groups EXCEPT ![Len(groups)] = Append(@, note)])
          ELSE GroupFrom(Tail(sorted), Append(groups, <<note>>))

\* groupChordEvents
GroupChordEvents(notes) == GroupFrom(SortByColumn(notes), <<>>)

\* |a - b|
Distance(a, b) == IF a >= b THEN a - b ELSE b - a

\* pickGridCount: the reduce over [4, 8, 16, 32] from 16
RECURSIVE ClosestFrom(_, _, _)
ClosestFrom(width, candidates, closest) ==
  IF candidates = <<>> THEN closest
  ELSE ClosestFrom(width, Tail(candidates),
                   IF Distance(width, Head(candidates)) < Distance(width, closest)
                   THEN Head(candidates) ELSE closest)

PickGridCount(width) == ClosestFrom(width, <<4, 8, 16, 32>>, 16)

\* durationMap[Math.round(gridCount / steps)]; "" when the map has no entry
GridDuration(steps, gridCount) ==
  LET denominator == RoundQuotient(gridCount, steps)
  IN CASE denominator = 1 -> "w" [] denominator = 2 -> "h" [] denominator = 4 -> "q"
       [] denominator = 8 -> "e" [] denominator = 16 -> "s" [] denominator = 32 -> "t"
       [] OTHER -> ""

\* stepsToDuration, without its warning
StepsToDuration(steps, gridCount) ==
  IF GridDuration(steps, gridCount) # "" THEN GridDuration(steps, gridCount) ELSE "e"

\* `${key}=${value}` or `${key}="${value}"` of formatAnnotations
FormatAnnotation(entry) ==
  entry.k \o <<"=">> \o
    (IF entry.v.t = "string" THEN <<"\"">> \o entry.v.v \o <<"\"">> ELSE JsString(entry.v))

\* formatAnnotations
FormatAnnotations(annotations) ==
  IF annotations = <<>> THEN <<>>
  ELSE <<"{">> \o Join([i \in 1..Len(annotations) |-> FormatAnnotation(annotations[i])],
                       <<",", " ">>) \o <<"}">>

\* String(n) of an integer
JsIntString(n) == IF n < 0 THEN <<"-">> \o IntToString(0 - n) ELSE IntToString(n)

\* `(${note.string}:${note.ref})`
NoteToken(note) == <<"(">> \o JsIntString(note.string) \o <<":">> \o note.ref \o <<")">>

\* the annotations of an event: every entry of every note, in order
RECURSIVE CopyEntries(_, _)
CopyEntries(entries, annotations) ==
  IF entries = <<>> THEN annotations
  ELSE CopyEntries(Tail(entries), ObjSet(annotations, Head(entries).k, Head(entries).v))

RECURSIVE CopyAnnotations(_, _)
CopyAnnotations(sortedNotes, annotations) ==
  IF sortedNotes = <<>> THEN annotations
  ELSE CopyAnnotations(Tail(sortedNotes), CopyEntries(Head(sortedNotes).annotations, annotations))

\* the annotation rhythm="unknown" put on every event, whatever the strategy
EventAnnotationsAlways(sortedNotes, rhythm) ==
  CopyAnnotations(sortedNotes, <<[k |-> kRhythm, v |-> StringValue(sUnknown)]>>)

EventAnnotations(sortedNotes, rhythm) ==
  CopyAnnotations(sortedNotes,
                  IF rhythm = "unknown" THEN <<[k |-> kRhythm, v |-> StringValue(sUnknown)]>>
                  ELSE <<>>)

\* the token of one group
EventTokenText(sortedNotes, rhythm) ==
  IF Len(sortedNotes) = 1
  THEN NoteToken(sortedNotes[1]) \o FormatAnnotations(EventAnnotations(sortedNotes, rhythm))
  ELSE <<"[", " ">> \o Join(Map1(NoteToken, sortedNotes), <<" ">>) \o <<" ", "]">>
         \o FormatAnnotations(EventAnnotations(sortedNotes, rhythm))

\* the steps of a group on the grid (rhythm strategy column-grid)
GroupSteps(column, nextColumn, width, gridCount) ==
  LET startStep == RoundQuotient(column * gridCount, width)
      nextStep == Max(startStep + 1, RoundQuotient(nextColumn * gridCount, width))
  IN Max(1, nextStep - startStep)

\* one iteration of groups.forEach of buildEventTokens
EventTokenOf(groups, index, width, rhythm) ==
  LET column == groups[index][1].column
      nextColumn == IF index < Len(groups) THEN groups[index + 1][1].column ELSE width
      steps == GroupSteps(column, nextColumn, width, PickGridCount(width))
  IN [column |-> column,
      token |-> EventTokenText(SortByStringDescending(groups[index]), rhythm),
      duration |-> IF rhythm = "column-grid"
                   THEN StepsToDuration(steps, PickGridCount(width)) ELSE "e",
      standard |-> rhythm # "column-grid" \/ GridDuration(steps, PickGridCount(width)) # ""]

\* buildEventTokens on the groups: [tokens, warnings]
EventTokensOf(groups, width, rhythm, warnings) ==
  LET tokens == [i \in 1..Len(groups) |-> EventTokenOf(groups, i, width, rhythm)]
      w1 == WarnIf(rhythm = "unknown", warnings,
                   Message("Rhythm is ambiguous in ASCII tabs; using eighth notes with rhythm=\"unknown\" annotations."))
      w2 == WarnIf(rhythm = "column-grid", w1,
                   Message("Rhythm inferred from column spacing; durations are approximate."))
  IN [tokens |-> tokens,
      warnings |-> WarnIf(\E i \in 1..Len(tokens) : ~tokens[i].standard, w2,
                     Message("Column-grid rhythm produced a non-standard duration; using eighth notes."))]

\* buildEventTokens
BuildEventTokens(notes, rhythm, warnings) ==
  EventTokensOf(GroupChordEvents(notes),
                MaxOf([i \in 1..Len(notes) |-> notes[i].column]) + 1, rhythm, warnings)

\* buildTuning: [tuning, warnings]
BuildTuning(metadata, stringCount, blocks, defaultTuning, warnings) ==
  LET fallback == BuildDefaultTuning(stringCount, defaultTuning)
      rows == blocks[1].rows
      labels == [i \in 1..Len(rows) |-> Trim(rows[Len(rows) + 1 - i].label)]
      inferred == ApplyDefaultOctaves(labels, fallback, warnings)
  IN IF metadata.tuning # <<>> THEN ApplyDefaultOctaves(metadata.tuning, fallback, warnings)
     ELSE IF blocks # <<>>
     THEN [tuning |-> inferred.tuning,
           warnings |-> Warn(inferred.warnings,
                          Message("No tuning metadata found; inferred tuning from string labels."))]
     ELSE [tuning |-> fallback,
           warnings |-> Warn(warnings,
                          Message("No tuning metadata found; defaulting to standard EADGBE."))]

\* blocks[0]?.rows.length ?? DEFAULT_TUNING.length
StringCountOf(blocks) == IF blocks # <<>> THEN Len(blocks[1].rows) ELSE Len(DEFAULT_TUNING)

\* the body lines buildOtab pushes before the blocks
BodyPrologue(metadata) ==
  <<<<"@", "t", "r", "a", "c", "k", " ", "g", "t", "r", "1", " ", "v", "o", "i", "c", "e", " ", "v", "1">>>>
    \o (IF metadata.title # <<>> THEN <<<<"#", " ", "T", "i", "t", "l", "e", ":", " ">> \o metadata.title>> ELSE <<>>)
    \o (IF metadata.key # <<>> THEN <<<<"#", " ", "K", "e", "y", ":", " ">> \o metadata.key>> ELSE <<>>)

\* the body lines buildOtab pushes for a block before its measures
BlockPrologue(block) ==
  (IF block.section # <<>> THEN <<<<"#", " ", "[">> \o block.section \o <<"]">>>> ELSE <<>>)
    \o (IF block.chordLine # <<>> THEN <<<<"#", " ", "C", "h", "o", "r", "d", "s", ":", " ">> \o block.chordLine>> ELSE <<>>)

\* `m${measureIndex}: | ${content} |`
ImportedMeasureLine(measureIndex, tokens) ==
  <<"m">> \o IntToString(measureIndex) \o <<":", " ", "|", " ">>
    \o Join([i \in 1..Len(tokens) |-> <<tokens[i].duration, " ">> \o tokens[i].token], <<" ">>)
    \o <<" ", "|">>

\* the loop of buildOtab over the measures of a block;
\* st = [lines, warnings, measureIndex]
RECURSIVE ImportMeasures(_, _, _, _)
ImportMeasures(measures, stringCount, rhythm, st) ==
  IF measures = <<>> THEN st
  ELSE LET scanned == ScanMeasure(Head(measures), stringCount, st.warnings)
           built == BuildEventTokens(scanned.notes, rhythm, scanned.warnings)
       IN ImportMeasures(Tail(measures), stringCount, rhythm,
            [lines |-> Append(st.lines,
                         ImportedMeasureLine(st.measureIndex, SortByColumn(built.tokens))),
             warnings |-> built.warnings,
             measureIndex |-> st.measureIndex + 1])

\* one iteration of the loop of buildOtab over the blocks
ImportBlockInto(block, stringCount, rhythm, st) ==
  LET split == SplitMeasures(block.rows, st.warnings)
  IN ImportMeasures(split.measures, stringCount, rhythm,
       [lines |-> st.lines \o BlockPrologue(block),
        warnings |-> split.warnings,
        measureIndex |-> st.measureIndex])

\* the header lines of buildOtab; warningCount is getWarningCount()
ImportedHeader(metadata, tuning, warningCount) ==
  <<lFormat, lVersion>>
    \o (IF metadata.title # <<>> THEN <<<<"t", "i", "t", "l", "e", "=", "\"">> \o metadata.title \o <<"\"">>>> ELSE <<>>)
    \o <<<<"t", "e", "m", "p", "o", "_", "b", "p", "m", "=", "1", "2", "0">>, <<"t", "i", "m", "e", "_", "s", "i", "g", "n", "a", "t", "u", "r", "e", "=", "\"", "4", "/", "4", "\"">>, <<"i", "m", "p", "o", "r", "t", "e", "d", "_", "f", "r", "o", "m", "=", "\"", "a", "s", "c", "i", "i", "\"">>,
         <<"i", "m", "p", "o", "r", "t", "_", "w", "a", "r", "n", "i", "n", "g", "s", "=">> \o IntToString(warningCount)>>
    \o (IF metadata.key # <<>> THEN <<<<"k", "e", "y", "=", "\"">> \o metadata.key \o <<"\"">>>> ELSE <<>>)
    \o <<<<>>, lTracks, lTrackId, <<"n", "a", "m", "e", "=", "\"", "G", "u", "i", "t", "a", "r", "\"">>, <<"i", "n", "s", "t", "r", "u", "m", "e", "n", "t", "=", "\"", "g", "u", "i", "t", "a", "r", "\"">>,
         <<"t", "u", "n", "i", "n", "g", "=", "[">> \o Join([i \in 1..Len(tuning) |-> <<"\"">> \o tuning[i] \o <<"\"">>], <<",">>)
           \o <<"]">>>>
    \o (IF metadata.capo # Undefined THEN <<<<"c", "a", "p", "o", "=">> \o JsString(metadata.capo)>> ELSE <<>>)

\* the text buildOtab returns, as lines
ImportedOtab(headerLines, bodyLines) ==
  FormatOtab(headerLines \o <<HEADER_DELIMITER>> \o bodyLines)

\* the most tab blocks of a generated text, and the most rows of a block
MaxBlocks == 2
MaxRows == 3

(***************************************************************************)
(* The importer run: importAsciiTab on a text, under each rhythm option,   *)
(* then parseOpenTab on the text returned.                                 *)
(***************************************************************************)
\* the rows of a tab, and the line written before the block
TabHigh ==
  [before |-> <<>>,
   rows |-> <<<<"e", "|", "-", "0", "-", "2", "-", "|">>, <<"B", "|", "-", "0", "-", "-", "-", "|">>, <<"G", "|", "-", "(", "3", ")", "-", "|">>, <<"D", "|", "-", "5", "h", "7", "~", "|">>>>]
TabLow ==
  [before |-> <<" ", "[", "V", "e", "r", "s", "e", "]", " ">>,
   rows |-> <<<<"E", " ", "|", "-", "3", "b", "-", "|", "1", "2">>, <<"A", "|", "-", "2", "b", "4", "-", "9", "|">>, <<"D", "b", "2", "|", "/", "5", "-", "-", "|", "-", "(", "7">>, <<"g", "#", "|", "1", " ", "p", "|">>>>]
Tabs == {TabHigh, TabLow}

\* a block of n rows
BlockLines(tab, n) == <<tab.before>> \o Slice(tab.rows, 1, Min(n, Len(tab.rows)))

BlockShapes(maxRows) == {BlockLines(tab, n) : tab \in Tabs, n \in 1..maxRows}

Preambles ==
  {<<>>, <<<<"T", "i", "t", "l", "e", ":", " ", "R", "i", "f", "f", " ", "i", "n", " ", "\"", "D", "\"">>, <<"c", "a", "p", "o", " ", "=", " ", "2", "n", "d", " ", "f", "r", "e", "t">>, <<"T", "u", "n", "i", "n", "g", ":", " ", "d", " ", "A", "#", " ", "x", "3">>>>}

\* hand-written texts: a tab of six strings under a section and a chord line
\* (docs/import-ascii.md), metadata the generated texts lack, a tab of seven
\* strings without separators
CorpusTabs ==
  {<<<<"[", "C", "h", "o", "r", "u", "s", "]">>, <<"G", "5", " ", " ", " ", " ", " ", "C", "5">>, <<>>, <<"e", "|", "-", "-", "-", "-", "-", "-", "-", "-", "-", "-", "-", "-", "-", "-", "-", "-", "|">>, <<"B", "|", "-", "-", "-", "-", "-", "-", "-", "-", "-", "-", "-", "-", "-", "-", "-", "-", "|">>,
     <<"G", "|", "-", "-", "0", "-", "-", "-", "-", "-", "5", "-", "-", "-", "-", "-", "-", "-", "|">>, <<"D", "|", "-", "-", "0", "-", "-", "-", "-", "-", "5", "-", "-", "-", "-", "-", "-", "-", "|">>, <<"A", "|", "-", "-", "2", "-", "-", "-", "-", "-", "3", "-", "-", "-", "-", "-", "-", "-", "|">>,
     <<"E", "|", "-", "-", "3", "-", "-", "-", "-", "-", "-", "-", "-", "-", "-", "-", "-", "-", "|">>>>,
   <<<<"A", " ", "s", "o", "n", "g">>, <<"B", "l", "u", "e", "s">>, <<"K", "E", "Y", ":", " ", "A", "m">>, <<"C", "a", "p", "o", ":", " ", "N", "o", " ", "C", "a", "p", "o">>, <<"A", "m", " ", " ", "C", "/", "G">>, <<"n", "o", "t", " ", "a", " ", "c", "h", "o", "r", "d">>,
     <<"e", "|", "-", "-", "1", "-", "|">>, <<"[", " ", "]">>, <<"T", "i", "t", "l", "e", ":", " ", "l", "a", "t", "e">>>>,
   <<<<"b", "|", "1">>, <<"e", "|", "-", "2">>, <<"B", "|", "3">>, <<"G", "|", "-", "4">>, <<"D", "|", "5">>, <<"A", "|", "-", "6">>, <<"E", "|", "7">>>>}

\* the lines of a text (input.split): the empty text is one empty line
LinesOfText(lines) == IF lines = <<>> THEN <<<<>>>> ELSE lines

ImportTexts(maxBlocks, maxRows) ==
  {LinesOfText(preamble \o Concat(blocks)) :
     preamble \in Preambles, blocks \in SeqsUpTo(BlockShapes(maxRows), maxBlocks)}
    \cup CorpusTabs

\* opts.rhythmStrategy: not given, or one of the three strategies
RhythmOptions == {"undefined", "unknown", "fixed-eighth", "column-grid"}

\* opts.rhythmStrategy ?? "unknown"
RhythmStrategy(option) == IF option = "undefined" THEN "unknown" ELSE option

ImpInit ==
  /\ itext \in ImportTexts(MaxBlocks, MaxRows)
  /\ ioption \in RhythmOptions
  /\ imeta = <<>>
  /\ iblocks = <<>>
  /\ iwarnings = <<>>
  /\ ituning = <<>>
  /\ ibody = <<>>
  /\ inext = 0
  /\ imeasure = 0
  /\ iotab = NotRun
  /\ idoc = NotParsed
  /\ ipc = "start"
  /\ RestIdleImp

\* importAsciiTab up to the call of buildOtab
ReadTabs ==
  /\ ipc = "start"
  /\ \E found \in {DetectTabBlocks(itext, <<>>)} :
       /\ iblocks' = found.blocks
       /\ iwarnings' = WarnIf(found.blocks = <<>>, found.warnings,
                         Message("No ASCII tab blocks detected; output will be empty."))
  /\ imeta' = ParseMetadata(itext)
  /\ ipc' = "detected"
  /\ UNCHANGED <<itext, ioption, ituning, ibody, inext, imeasure, iotab, idoc, restImp>>

\* buildOtab up to the loop over the blocks
BeginOtab ==
  /\ ipc = "detected"
  /\ \E built \in {BuildTuning(imeta, StringCountOf(iblocks), iblocks, DEFAULT_TUNING,
                               iwarnings)} :
       /\ ituning' = built.tuning
       /\ iwarnings' =
            Warn(WarnIf(imeta.capo = Undefined, built.warnings,
                        Message("Capo not specified; assuming no capo.")),
                 Message("Time signature not specified; defaulting to 4/4."))
  /\ ibody' = BodyPrologue(imeta)
  /\ inext' = 1
  /\ imeasure' = 1
  /\ ipc' = "blocks"
  /\ UNCHANGED <<itext, ioption, imeta, iblocks, iotab, idoc, restImp>>

\* one iteration of the loop of buildOtab over the blocks
ImportBlock ==
  /\ ipc = "blocks"
  /\ inext <= Len(iblocks)
  /\ \E st \in {ImportBlockInto(iblocks[inext], StringCountOf(iblocks),
                                RhythmStrategy(ioption),
                                [lines |-> ibody, warnings |-> iwarnings,
                                 measureIndex |-> imeasure])} :
       /\ ibody' = st.lines
       /\ iwarnings' = st.warnings
       /\ imeasure' = st.measureIndex
  /\ inext' = inext + 1
  /\ UNCHANGED <<itext, ioption, imeta, iblocks, ituning, iotab, idoc, ipc, restImp>>

\* buildOtab after the loop, and the return of importAsciiTab
WriteOtab ==
  /\ ipc = "blocks"
  /\ inext > Len(iblocks)
  /\ iotab' = ImportedOtab(ImportedHeader(imeta, ituning, Len(iwarnings)), ibody)
  /\ ipc' = "returned"
  /\ UNCHANGED <<itext, ioption, imeta, iblocks, iwarnings, ituning, ibody, inext,
                 imeasure, idoc, restImp>>

\* parseOpenTab(result.otab)
ParseImported ==
  /\ ipc = "returned"
  /\ idoc' = ParseOpenTab(iotab)
  /\ ipc' = "parsed"
  /\ UNCHANGED <<itext, ioption, imeta, iblocks, iwarnings, ituning, ibody, inext,
                 imeasure, iotab, restImp>>

ImpNext == ReadTabs \/ BeginOtab \/ ImportBlock \/ WriteOtab \/ ParseImported

SpecImport == ImpInit /\ [][ImpNext]_vars

(***************************************************************************)
(* Properties of the formatter run.                                        *)
(***************************************************************************)
\* C1: formatting is idempotent: formatting the formatted text again gives
\* the formatted text, for every input text.
C1_FormatIdempotent ==
  fpc \in {"reformatted", "source parsed", "done"} => fout2 = fout1

\* C2: for every text the parser accepts, the formatted text is accepted as
\* well and parses to the same Document (header, tracks, measure indices,
\* events, durations, notes and annotation values).
C2_FormatPreservesDocument ==
  (fpc = "done" /\ fdoc1.err = NoError) =>
    (fdoc2.err = NoError /\ fdoc2.doc = fdoc1.doc)

(***************************************************************************)
(* Properties of the parser run.  A line is read as the body loop reads    *)
(* it: comment stripped, trimmed.                                          *)
(***************************************************************************)
StrippedLine(line) == Trim(StripComment(line))

IsMeasureLine(line) == MatchMeasureLine(StrippedLine(line)).ok

IsDirectiveLine(line) == StartsWith(StrippedLine(line), sAtTrack)

MeasureIndexOf(line) == DigitsToInt(MatchMeasureLine(StrippedLine(line)).index)

MeasureTokensOf(line) ==
  SplitTokens(Trim(MatchMeasureLine(StrippedLine(line)).content))

IsDurationToken(token) == MatchDurationToken(token).ok

\* the positions of the tokens that are not durations, in order
EventPositions(tokens) ==
  LET RECURSIVE From(_, _)
      From(i, acc) ==
        IF i > Len(tokens) THEN acc
        ELSE From(i + 1, IF IsDurationToken(tokens[i]) THEN acc
                         ELSE Append(acc, i))
  IN From(1, <<>>)

\* the position of the nearest duration token to the left of position i,
\* 0 when there is none
DurationLeftOf(tokens, i) ==
  LET left == {j \in 1..(i - 1) : IsDurationToken(tokens[j])}
  IN IF left = {} THEN 0 ELSE CHOOSE j \in left : \A k \in left : k <= j

\* the track and the voice a directive line names
DirectiveTrack(line) == SplitTokens(StrippedLine(line))[2]

DirectiveVoice(line) ==
  LET words == SplitTokens(StrippedLine(line))
  IN IF Len(words) >= 4 THEN words[4] ELSE sV1

\* the position of the last directive line before position i, 0 when none
DirectiveBefore(i) ==
  LET before == {j \in 1..(i - 1) : IsDirectiveLine(plines[j])}
  IN IF before = {} THEN 0 ELSE CHOOSE j \in before : \A k \in before : k <= j

\* the events stored for a measure index under a track and a voice
HasStored(measureMap, index, trackId, voiceId) ==
  /\ ObjHas(measureMap, index)
  /\ ObjHas(ObjGet(measureMap, index).tracks, trackId)
  /\ ObjHas(ObjGet(ObjGet(measureMap, index).tracks, trackId).voices, voiceId)

StoredEvents(measureMap, index, trackId, voiceId) ==
  ObjGet(ObjGet(ObjGet(measureMap, index).tracks, trackId).voices, voiceId)

LastLineStored ==
  /\ ppc \in {"body", "done"}
  /\ plines # <<>>
  /\ IsMeasureLine(plines[Len(plines)])

\* C3: on a measure line a bare duration token emits no event, there are as
\* many events as non-duration tokens, and every event carries the duration
\* of the nearest duration token to its left on the line.
C3_DurationCarry ==
  LastLineStored =>
    LET line == plines[Len(plines)]
        tokens == MeasureTokensOf(line)
        at == EventPositions(tokens)
        index == MeasureIndexOf(line)
    IN /\ HasStored(pstate.measureMap, index, pstate.trackId, pstate.voiceId)
       /\ LET events == StoredEvents(pstate.measureMap, index,
                                     pstate.trackId, pstate.voiceId)
          IN /\ Len(events) = Len(at)
             /\ \A k \in 1..Len(at) :
                  /\ DurationLeftOf(tokens, at[k]) > 0
                  /\ events[k].duration =
                       EventDuration(ParseDuration(
                         tokens[DurationLeftOf(tokens, at[k])]))

\* a line with a bare duration, several events under one duration and a
\* change of duration has been stored
C3_Witness ==
  /\ LastLineStored
  /\ plines[Len(plines)] = lCarry
  /\ Len(StoredEvents(pstate.measureMap, 1, pstate.trackId, pstate.voiceId)) = 3

\* a measure line with an event token that no duration token precedes
EventBeforeDuration(line) ==
  LET tokens == MeasureTokensOf(line)
      at == EventPositions(tokens)
  IN \E k \in 1..Len(at) : DurationLeftOf(tokens, at[k]) = 0

\* C4: the current duration is empty at the start of every measure line: an
\* event token before any duration token on its line is a parse error and no
\* Document is produced, whatever the lines before it were.
C4_DurationResetPerLine ==
  (/\ plines # <<>>
   /\ IsMeasureLine(plines[Len(plines)])
   /\ EventBeforeDuration(plines[Len(plines)])) =>
    /\ ppc = "failed"
    /\ pstate.err # NoError
    /\ pmeasures = <<>>
    /\ (DirectiveBefore(Len(plines)) > 0 => pstate.err = ErrMissingDuration)

\* the failing line comes after a measure line of the same track and voice
\* that set a duration
C4_Witness ==
  /\ ppc = "failed"
  /\ pstate.err = ErrMissingDuration
  /\ Len(plines) >= 3
  /\ plines[Len(plines)] = lNoDuration
  /\ plines[Len(plines) - 1] \in {lCarry, lDotted}
  /\ HasStored(pstate.measureMap, MeasureIndexOf(plines[Len(plines) - 1]),
               pstate.trackId, pstate.voiceId)

\* C5: a measure line before any @track directive is the error "Measure
\* defined before selecting track/voice", and no Document is produced.
C5_MeasureNeedsTrack ==
  (/\ plines # <<>>
   /\ IsMeasureLine(plines[Len(plines)])
   /\ DirectiveBefore(Len(plines)) = 0) =>
    /\ ppc = "failed"
    /\ pstate.err = ErrNoTrackSelected
    /\ pmeasures = <<>>

C5_Witness ==
  /\ ppc = "failed"
  /\ pstate.err = ErrNoTrackSelected
  /\ plines = <<lComment, lCarry>>

\* the events a measure line holds
LineEvents(line) == EventsFrom(MeasureTokensOf(line), NoDuration, <<>>).events

\* the measure index, the track and the voice a measure line is stored under
LineKey(i) ==
  \* the one element of a set of one key
  CHOOSE key \in {<<MeasureIndexOf(plines[i]), DirectiveTrack(line),
                    DirectiveVoice(line)>> :
                     line \in {plines[DirectiveBefore(i)]}} : TRUE

MeasureLinesRead == {i \in 1..Len(plines) : IsMeasureLine(plines[i])}

\* the key of every measure line read that follows a directive
LineKeys ==
  [i \in 1..Len(plines) |->
     IF IsMeasureLine(plines[i]) /\ DirectiveBefore(i) > 0 THEN LineKey(i)
     ELSE <<>>]

DocMeasures(index) == {a \in 1..Len(pmeasures) : pmeasures[a].index = index}

RECURSIVE TickAt(_, _)
TickAt(trackEvents, i) ==
  IF i = 0 THEN 0 ELSE TickAt(trackEvents, i - 1) + trackEvents[i].deltaTime

\* the (string, fret) pairs of the notes of a track in the Document
NotesOfTrack(document, trackId) ==
  {<<note.string, note.fret>> :
     note \in UNION {
       {event.notes[n] : n \in 1..Len(event.notes)} :
         event \in UNION {
           UNION {{voice[e] : e \in 1..Len(voice)} :
                    voice \in {ObjGet(measure.tracks, trackId).voices[v].v :
                                 v \in 1..Len(ObjGet(measure.tracks, trackId).voices)}} :
             measure \in {document.measures[m] :
                            m \in {x \in 1..Len(document.measures) :
                                     ObjHas(document.measures[x].tracks, trackId)}}}}}

NoteOnNumbers(trackEvents) ==
  {trackEvents[i].noteNumber :
     i \in {x \in 1..Len(trackEvents) : trackEvents[x].subtype = "noteOn"}}

\* the pitches stated for the tuning E2 A2 D3 G3 B3 E4
StatedPitches ==
  {[string |-> 6, fret |-> 0, capo |-> 0, midi |-> 40],
   [string |-> 1, fret |-> 0, capo |-> 0, midi |-> 64],
   [string |-> 1, fret |-> 12, capo |-> 0, midi |-> 76],
   [string |-> 1, fret |-> 0, capo |-> 2, midi |-> 66]}

\* C8: with tuning E2 A2 D3 G3 B3 E4 and capo 0 the note (6:0) is written as
\* MIDI note 40, (1:0) as 64 and (1:12) as 76; with capo 2 (1:0) is written
\* as 66.  Stated for the tracks all of whose notes are one such note.
C8_StatedPitches ==
  mpc = "done" =>
    \A t \in 1..Len(mdoc.tracks) : \A case \in StatedPitches :
      (/\ TrackTuning(mdoc.tracks[t]) = DEFAULT_TUNING
       /\ TrackCapo(mdoc.tracks[t]) = case.capo
       /\ NotesOfTrack(mdoc, mdoc.tracks[t].id.v) = {<<case.string, case.fret>>}) =>
        NoteOnNumbers(mfile.tracks[t]) = {case.midi}

\* the ticks the events of a voice take
RECURSIVE VoiceTicks(_)
VoiceTicks(voiceEvents) ==
  IF voiceEvents = <<>> THEN 0
  ELSE DurationToTicks(Head(voiceEvents).duration, PPQ) + VoiceTicks(Tail(voiceEvents))

NoVoiceExceeds(document) ==
  \A m \in 1..Len(document.measures) :
    \A t \in 1..Len(document.measures[m].tracks) :
      \A v \in 1..Len(document.measures[m].tracks[t].v.voices) :
        VoiceTicks(document.measures[m].tracks[t].v.voices[v].v)
          <= ExpectedMeasureTicks(document)

\* C9: when no voice of any measure is longer than the expected ticks of a
\* measure, the end-of-track event of every written track is at the tick
\* number of measures times expected ticks.
C9_TrackLength ==
  (mpc = "done" /\ NoVoiceExceeds(mdoc)) =>
    \A t \in 1..Len(mfile.tracks) :
      TickAt(mfile.tracks[t], Len(mfile.tracks[t])) =
        Len(mdoc.measures) * ExpectedMeasureTicks(mdoc)

\* the place of an event among the events of its tick
RankMetaFirst(event) ==
  IF event.type = "meta" THEN 0 ELSE IF event.subtype = "noteOff" THEN 1 ELSE 2

RankEndLast(event) ==
  IF event.subtype = "endOfTrack" THEN 3 ELSE RankMetaFirst(event)

\* C10 as stated: in every written track the delta times are >= 0, and among
\* the events of one tick all meta events come first, then the note-offs,
\* then the note-ons.
C10_MetaEventsFirst ==
  mpc = "done" =>
    \A t \in 1..Len(mfile.tracks) :
      LET events == mfile.tracks[t]
      IN /\ \A i \in 1..Len(events) : events[i].deltaTime >= 0
         /\ \A i, j \in 1..Len(events) :
              (i < j /\ TickAt(events, i) = TickAt(events, j)) =>
                RankMetaFirst(events[i]) <= RankMetaFirst(events[j])

\* C10, amended: in every written track the delta times are >= 0, and among
\* the events of one tick the set-tempo and time-signature events come first,
\* then the note-offs, then the note-ons; the end-of-track event is the last
\* event of the track, after the note-offs of its tick.
C10_EndOfTrackLast ==
  mpc = "done" =>
    \A t \in 1..Len(mfile.tracks) :
      LET events == mfile.tracks[t]
      IN /\ \A i \in 1..Len(events) : events[i].deltaTime >= 0
         /\ events[Len(events)].subtype = "endOfTrack"
         /\ \A i, j \in 1..Len(events) :
              (i < j /\ TickAt(events, i) = TickAt(events, j)) =>
                RankEndLast(events[i]) <= RankEndLast(events[j])

\* a track in which a note-on pushed before a note-off of the same tick is
\* written after it, and the end of track shares its tick with a note-off
C10_Witness ==
  /\ mpc = "done"
  /\ \E t \in 1..Len(mfile.tracks) :
       LET events == mfile.tracks[t]
       IN /\ \E i \in 1..(Len(events) - 1) :
               /\ events[i].subtype = "noteOff"
               /\ events[i + 1].subtype = "noteOn"
               /\ events[i + 1].deltaTime = 0
               /\ events[i].noteNumber # events[i + 1].noteNumber
          /\ events[Len(events) - 1].subtype = "noteOff"
          /\ TickAt(events, Len(events)) > 0

\* a note reference the track can sound: its string is one of the tuning, the
\* tuning entry is a pitch, and pitch + fret + capo is in 0..127
Renderable(track, noteRef) ==
  /\ noteRef.string \in 1..Len(TrackTuning(track))
  /\ ParsePitch(TrackTuning(track)[noteRef.string]).ok
  /\ (ParsePitch(TrackTuning(track)[noteRef.string]).midi + noteRef.fret
        + TrackCapo(track)) \in 0..127

\* the ticks of the first k events of a voice, every event counted
RECURSIVE TicksBefore(_, _)
TicksBefore(voice, k) ==
  IF k = 0 THEN 0
  ELSE TicksBefore(voice, k - 1) + DurationToTicks(voice[k].duration, PPQ)

\* the voices of a track in a measure, none when the measure has no entry
VoicesIn(measure, trackId) ==
  IF ObjHas(measure.tracks, trackId) THEN ObjGet(measure.tracks, trackId).voices
  ELSE <<>>

\* the length of a measure for a track: the expected ticks, or its longest
\* voice when that is longer
MeasureTicksFor(document, trackId, m) ==
  LET voices == VoicesIn(document.measures[m], trackId)
      lengths == {TicksBefore(voices[v].v, Len(voices[v].v)) : v \in 1..Len(voices)}
                   \cup {ExpectedMeasureTicks(document)}
  IN CHOOSE l \in lengths : \A o \in lengths : o <= l

RECURSIVE MeasureStartFor(_, _, _)
MeasureStartFor(document, trackId, m) ==
  IF m = 1 THEN 0
  ELSE MeasureStartFor(document, trackId, m - 1)
         + MeasureTicksFor(document, trackId, m - 1)

\* the places of the note references of a track: measure, voice, event, note
NotePlaces(document, trackId) ==
  UNION {UNION {UNION {{<<m, v, e, n>> :
                          n \in 1..Len(VoicesIn(document.measures[m], trackId)[v].v[e].notes)} :
                       e \in 1..Len(VoicesIn(document.measures[m], trackId)[v].v)} :
                v \in 1..Len(VoicesIn(document.measures[m], trackId))} :
         m \in 1..Len(document.measures)}

PlaceEvent(document, trackId, place) ==
  VoicesIn(document.measures[place[1]], trackId)[place[2]].v[place[3]]

\* the tick an event starts at when every event before it in its voice has
\* taken its time
PlaceTick(document, trackId, place) ==
  MeasureStartFor(document, trackId, place[1])
    + TicksBefore(VoicesIn(document.measures[place[1]], trackId)[place[2]].v,
                  place[3] - 1)

SubtypeCount(trackEvents, subtype) ==
  Cardinality({i \in 1..Len(trackEvents) : trackEvents[i].subtype = subtype})

\* C11: a note whose pitch does not resolve into 0..127 (string outside the
\* tuning, tuning entry that is no pitch, pitch + fret + capo out of range)
\* gives neither a note-on nor a note-off, the file is still written with one
\* track per track, and every note that does resolve starts at the tick it
\* would start at had every event before it in its voice been rendered.
C11_UnrenderableNotesDropped ==
  mpc = "done" =>
    /\ Len(mfile.tracks) = Len(mdoc.tracks)
    /\ \A t \in 1..Len(mdoc.tracks) :
         \A places \in {NotePlaces(mdoc, mdoc.tracks[t].id.v)} :
           \A sounding \in {{p \in places :
                               Renderable(mdoc.tracks[t],
                                 PlaceEvent(mdoc, mdoc.tracks[t].id.v, p).notes[p[4]])}} :
             /\ SubtypeCount(mfile.tracks[t], "noteOn") = Cardinality(sounding)
             /\ SubtypeCount(mfile.tracks[t], "noteOff") = Cardinality(sounding)
             /\ {<<TickAt(mfile.tracks[t], i), mfile.tracks[t][i].noteNumber>> :
                   i \in {x \in 1..Len(mfile.tracks[t]) :
                            mfile.tracks[t][x].subtype = "noteOn"}}
                  = {<<PlaceTick(mdoc, mdoc.tracks[t].id.v, p),
                       ResolveStringPitch(mdoc.tracks[t],
                         PlaceEvent(mdoc, mdoc.tracks[t].id.v, p).notes[p[4]]).midi>> :
                       p \in sounding}

\* a voice of the three-string track holds a note on a missing string, one on
\* the string whose tuning entry is no pitch and one out of range, and the
\* note after them is written at the fourth quarter
C11_Witness ==
  /\ mpc = "done"
  /\ mdoc.tracks = <<OddTrack>>
  /\ Len(mdoc.measures) = 1
  /\ VoicesIn(mdoc.measures[1], sGtr1) = vNoSuchString
  /\ \E i \in 1..Len(mfile.tracks[1]) :
       /\ mfile.tracks[1][i].subtype = "noteOn"
       /\ TickAt(mfile.tracks[1], i) = 3 * PPQ
  /\ SubtypeCount(mfile.tracks[1], "noteOn") = 1

(***************************************************************************)
(* Properties of the duration run.                                         *)
(***************************************************************************)
\* the ticks of a whole, half, quarter, eighth, sixteenth, thirty-second note
StatedBase(base) ==
  CASE base = "w" -> 1920 [] base = "h" -> 960 [] base = "q" -> 480
    [] base = "e" -> 240 [] base = "s" -> 120 [] base = "t" -> 60

\* max(1, round(B * (2 - 2^(-dots)) * 2 / tuplet)): the integer n with
\* n - 1/2 <= x < n + 1/2 for x = num / den, at least 1
StatedLength(duration) ==
  LET tuplet == TupletOf(duration)
      num == StatedBase(duration.base) * (2 * Pow2(duration.dots) - 1)
               * (IF duration.tuplet = <<>> THEN 1 ELSE 2)
      den == Pow2(duration.dots) * (IF duration.tuplet = <<>> THEN 1 ELSE tuplet)
      n == CHOOSE k \in 0..(4 * StatedBase(duration.base)) :
             (2 * k - 1) * den <= 2 * num /\ 2 * num < (2 * k + 1) * den
  IN IF n < 1 THEN 1 ELSE n

\* C12: for every Duration (base w h q e s t, dots 0..2, tuplet absent or at
\* least 1) the MIDI tick length and the MusicXML duration are the same
\* integer, max(1, round(B * (2 - 2^(-dots)) * 2 / tuplet)) with B = 1920,
\* 960, 480, 240, 120, 60.
C12_TicksEqualDivisions ==
  dpc = "done" =>
    /\ dticks = ddivisions
    /\ dticks = StatedLength(dduration)

\* a dotted thirty-second under a tuplet of 4 lies halfway between two
\* integers, 52.5, and is rounded up
C12_Witness ==
  /\ dpc = "done"
  /\ dduration = DurationOf("t", 2, <<"4">>)
  /\ ddivisions = 53

(***************************************************************************)
(* Properties of the MusicXML run.                                         *)
(***************************************************************************)
\* the position of the k-th element with the tag in a part
RECURSIVE TagPosition(_, _, _)
TagPosition(part, tag, k) ==
  LET first == CHOOSE i \in 1..Len(part) :
                 /\ part[i].tag = tag
                 /\ \A j \in 1..(i - 1) : part[j].tag # tag
  IN IF k = 1 THEN first
     ELSE first + TagPosition(SubSeq(part, first + 1, Len(part)), tag, k - 1)

TagCount(part, tag) == Cardinality({i \in 1..Len(part) : part[i].tag = tag})

\* the notes and backups of the k-th measure of a part, in order
MeasureElements(part, k) ==
  SelectSeq(SubSeq(part, TagPosition(part, "measure", k),
                   TagPosition(part, "/measure", k)),
            LAMBDA element : element.tag \in {"note", "backup"})

\* the elements before the first backup, and those after it
UpToBackup(elements) ==
  IF \E i \in 1..Len(elements) : elements[i].tag = "backup"
  THEN SubSeq(elements, 1, TagPosition(elements, "backup", 1) - 1)
  ELSE elements
RECURSIVE VoiceSegments(_)
VoiceSegments(elements) ==
  IF \E i \in 1..Len(elements) : elements[i].tag = "backup"
  THEN <<UpToBackup(elements)>>
         \o VoiceSegments(SubSeq(elements, TagPosition(elements, "backup", 1) + 1,
                                 Len(elements)))
  ELSE <<elements>>

\* the durations of the notes and rests of a segment, a chord counted once
RECURSIVE SegmentLength(_)
SegmentLength(segment) ==
  IF segment = <<>> THEN 0
  ELSE (IF Head(segment).chord THEN 0 ELSE Head(segment).duration)
         + SegmentLength(Tail(segment))

RECURSIVE StatedVoiceLength(_)
StatedVoiceLength(events) ==
  IF events = <<>> THEN 0
  ELSE StatedLength(Head(events).duration) + StatedVoiceLength(Tail(events))

\* the measure length of a track in a measure: the length the time signature
\* gives, or the longest voice when that is longer
StatedMeasureLength(document, voices) ==
  LET lengths == {StatedVoiceLength(voices[v].v) : v \in 1..Len(voices)}
                   \cup {(StatedBase("q") * 4 * document.header.time_signature.numerator)
                           \div document.header.time_signature.denominator}
  IN CHOOSE l \in lengths : \A o \in lengths : o <= l

\* the property of one measure of one part: elements are its notes and
\* backups, voices the voices of the track in the measure, L the length
MeasureFilled(elements, segments, voices, voiceIds, L) ==
  /\ Len(segments) = Max(1, Len(voices))
  /\ \A j \in 1..Len(segments) : SegmentLength(segments[j]) = L
  /\ \A i \in 1..Len(elements) : elements[i].tag = "backup" => elements[i].duration = L
  /\ TagCount(elements, "backup") = Max(1, Len(voices)) - 1
  /\ elements[Len(elements)].tag # "backup"
  /\ \A j \in 1..Len(voiceIds) :
       \A length \in {StatedVoiceLength(ObjGet(voices, voiceIds[j]))} :
         \A counted \in {SelectSeq(segments[j], LAMBDA element : ~element.chord)} :
           /\ \A i \in 1..Len(segments[j]) : segments[j][i].voice = j
           /\ length >= L => Len(counted) = Len(ObjGet(voices, voiceIds[j]))
           /\ length < L =>
                /\ Len(counted) = Len(ObjGet(voices, voiceIds[j])) + 1
                /\ counted[Len(counted)].rest
                /\ counted[Len(counted)].duration = L - length

\* C13: in every measure of every part, with L the larger of the expected
\* length and the longest voice of the track in the measure, the notes and
\* rests of each voice (a chord counted once) add up to L, a shorter voice
\* ends with one rest of the missing length, and one backup of duration L
\* stands between consecutive voices and none after the last.
C13_VoicesFillMeasure ==
  xpc = "done" =>
    \A t \in 1..Len(xdoc.tracks) :
      /\ TagCount(xparts[t], "measure") = Len(xdoc.measures)
      /\ \A k \in 1..Len(xdoc.measures) :
           \A elements \in {MeasureElements(xparts[t], k)},
              voices \in {TrackVoices(xdoc.measures[k], xdoc.tracks[t])} :
             MeasureFilled(elements, VoiceSegments(elements), voices,
                           SortStrings(ObjKeys(voices)),
                           StatedMeasureLength(xdoc, voices))

\* in 3/4 a measure holds voice v2 of a half note and voice v1 of a whole
\* note and a quarter rest: the measure is 2400 long, voice 1 is not filled
\* up, one backup of 2400 follows it, and voice 2 ends with a rest of 1440
C13_Witness ==
  /\ xpc = "done"
  /\ xdoc.header.time_signature = [numerator |-> 3, denominator |-> 4]
  /\ TrackVoices(xdoc.measures[1], xdoc.tracks[1]) = vSecondFirst
  /\ \E elements \in {MeasureElements(xparts[1], 1)} :
       /\ Len(elements) = 5
       /\ elements[3] = BackupElement(2400)
       /\ elements[5] = RestElement(1440, 2)

(***************************************************************************)
(* Properties of the ASCII run.                                            *)
(***************************************************************************)
IsMarkerLine(line) == StartsWith(line, <<"/", "/">>)
IsHeaderLine(line) == StartsWith(line, <<"#", " ", "T", "r", "a", "c", "k", ":">>)

\* the positions of the `// mN` lines of the output, in order
MarkerPositions(out) ==
  SelectSeq([i \in 1..Len(out) |-> i], LAMBDA i : IsMarkerLine(out[i]))

\* the rows under the marker at a position: the text between the bars of the
\* lines up to the next marker or track header
RECURSIVE RowsFrom(_, _)
RowsFrom(out, i) ==
  IF i > Len(out) \/ IsMarkerLine(out[i]) \/ IsHeaderLine(out[i]) THEN <<>>
  ELSE <<SubSeq(out[i], IndexOf(out[i], "|") + 1, Len(out[i]) - 1)>>
         \o RowsFrom(out, i + 1)

RECURSIVE DigitCount(_)
DigitCount(n) == IF n < 10 THEN 1 ELSE 1 + DigitCount(n \div 10)

\* the column width of an event
ColumnWidth(event) ==
  IF event.type = "rest" THEN 1
  ELSE CHOOSE w \in {DigitCount(event.notes[n].fret) : n \in 1..Len(event.notes)} :
         \A n \in 1..Len(event.notes) : DigitCount(event.notes[n].fret) <= w

RECURSIVE ColumnsWidth(_)
ColumnsWidth(events) ==
  IF events = <<>> THEN 0 ELSE ColumnWidth(Head(events)) + ColumnsWidth(Tail(events))

\* the stated length of the rows of a measure with the events
StatedRowLength(events) ==
  IF events = <<>> THEN 1 ELSE ColumnsWidth(events) + Len(events) - 1

\* the events of a track in a measure, voice after voice
RECURSIVE EventsOfVoices(_)
EventsOfVoices(voices) ==
  IF voices = <<>> THEN <<>> ELSE Head(voices).v \o EventsOfVoices(Tail(voices))

\* C14: within one measure every string row has the same length: the sum
\* over the events of the measure of the column width (rest 1, note the
\* digit count of its fret, chord the largest digit count of its frets) plus
\* one separator between consecutive events; a single `-` per string when
\* the measure has no events.
C14_RowLengths ==
  apc = "done" =>
    \A markers \in {MarkerPositions(aout)} :
      /\ Len(markers) = Len(adoc.tracks) * Len(adoc.measures)
      /\ \A j \in 1..Len(markers) :
           \A rows \in {RowsFrom(aout, markers[j] + 1)} :
             /\ rows # <<>>
             /\ \A r \in 1..Len(rows) :
                  Len(rows[r]) =
                    StatedRowLength(EventsOfVoices(TrackVoices(
                      adoc.measures[((j - 1) % Len(adoc.measures)) + 1],
                      adoc.tracks[((j - 1) \div Len(adoc.measures)) + 1])))

(***************************************************************************)
(* Duration expansion by the formatter.                                    *)
(***************************************************************************)
\* a rest, a note or a chord token, with or without annotations
IsEventToken(token) ==
  \/ StartsWith(token, <<"r">>)
  \/ StartsWith(token, <<"(">>)
  \/ StartsWith(token, <<"[">>)

\* every event token of the line stands right after a duration token
DurationsExpanded(line) ==
  \A tokens \in {MeasureTokensOf(line)} :
    \A k \in 1..Len(tokens) :
      IsEventToken(tokens[k]) => (k > 1 /\ IsDurationToken(tokens[k - 1]))

\* C15: in the text formatOtab returns, in every measure line, every event
\* token (rest, note, chord) is immediately preceded by a duration token.
C15_DurationBeforeEveryEvent ==
  fpc # "start" =>
    \A i \in 1..Len(fout1) : IsMeasureLine(fout1[i]) => DurationsExpanded(fout1[i])

(***************************************************************************)
(* Properties of the importer run.                                         *)
(***************************************************************************)

\* C16: for every text and every rhythm option the text importAsciiTab returns is accepted by parseOpenTab, whatever the number of tab blocks and of rows in each block.
C16_ImportedTextParses == ipc = "parsed" => idoc.err = NoError

\* the events of the Document parsed from the returned text
ImportedEvents ==
  UNION { UNION { UNION { { voice.v[e] : e \in 1..Len(voice.v) } :
                          voice \in { track.v.voices[v] : v \in 1..Len(track.v.voices) } } :
                  track \in { measure.tracks[t] : t \in 1..Len(measure.tracks) } } :
          measure \in { idoc.doc.measures[m] : m \in 1..Len(idoc.doc.measures) } }

Eighth == [base |-> "e", dots |-> 0, tuplet |-> <<>>]

\* the measure lines of the body that name the rhythm annotation
RhythmLines ==
  { i \in 1..Len(ibody) :
      \E p \in 1..Len(ibody[i]) : HasAt(ibody[i], p, kRhythm \o <<"=">>) }

\* C17: with the rhythm strategy unknown (the default) every imported event has duration e and the annotation rhythm="unknown"; with fixed-eighth every event has duration e and no rhythm annotation.
C17_EighthsAndRhythm ==
  /\ (ipc = "parsed" /\ idoc.err = NoError /\ RhythmStrategy(ioption) = "unknown") =>
       \A event \in ImportedEvents :
         /\ event.duration = Eighth
         /\ ObjHas(event.annotations, kRhythm)
         /\ ObjGet(event.annotations, kRhythm) = StringValue(sUnknown)
  /\ (ipc = "parsed" /\ idoc.err = NoError /\ RhythmStrategy(ioption) = "fixed-eighth") =>
       \A event \in ImportedEvents :
         /\ event.duration = Eighth
         /\ ~ObjHas(event.annotations, kRhythm)
  /\ RhythmStrategy(ioption) = "fixed-eighth" => RhythmLines = {}

\* a text imported with the default strategy has a single note and a chord,
\* and one of them carries an annotation of its own next to the rhythm
C17_Witness ==
  /\ ipc = "parsed"
  /\ idoc.err = NoError
  /\ ioption = "undefined"
  /\ \E a, b, c \in ImportedEvents :
       /\ a.type = "note"
       /\ b.type = "chord"
       /\ Len(c.annotations) >= 2

\* a text imported with fixed-eighth has an annotated event
C17_FixedEighthReached ==
  /\ ipc = "parsed"
  /\ idoc.err = NoError
  /\ ioption = "fixed-eighth"
  /\ \E a, c \in ImportedEvents : a.type = "chord" /\ c.annotations # <<>>

sImportWarnings == <<"i", "m", "p", "o", "r", "t", "_", "w", "a", "r", "n", "i", "n", "g", "s", "=">>

\* the lines of the returned text that hold the warning count
WarningCountLines == { i \in 1..Len(iotab) : StartsWith(iotab[i], sImportWarnings) }

\* C18: the n of the import_warnings=n header line of the returned text is the length of the returned warnings list, and no message is twice in that list.
C18_WarningCount ==
  ipc \in {"returned", "parsed"} =>
    /\ Cardinality(WarningCountLines) = 1
    /\ \A i \in WarningCountLines :
         iotab[i] = sImportWarnings \o IntToString(Len(iwarnings))
    /\ \A a, b \in 1..Len(iwarnings) : iwarnings[a] = iwarnings[b] => a = b

\* two blocks of the same number of rows, not six: the message about the
\* number of strings was raised for each of them
C18_Witness ==
  /\ ipc = "returned"
  /\ Len(iblocks) = 2
  /\ Len(iblocks[1].rows) = Len(iblocks[2].rows)
  /\ Len(iblocks[1].rows) # 6
  /\ Len(iwarnings) >= 4

(***************************************************************************)
(* The semantic validator of the editor (validateText): diagnostics on the *)
(* lines of a text.                                                        *)
(***************************************************************************)
\* the most bracket characters between the pipes of a generated measure line
MaxBrackets == 4

dMissingDelimiter == "Missing --- delimiter."
dMissingKey == "Missing required header key: ${key}."
dMissingTrack == "Track selection (@track ...) missing before first measure."
dInvalidMeasure == "Invalid measure line format. Expected 'mN: | ... |'."
dUnbalanced == "Unbalanced brackets/parens/braces in measure line."
dInvalidNote == "Invalid note token: ${token}"
dInvalidDuration == "Invalid duration token: ${token}"

\* one diagnostic; value is the key or token named in the message
Diagnostic(message, value, line, startCol, endCol) ==
  [message |-> message, value |-> value, line |-> line,
   startCol |-> startCol, endCol |-> endCol]

\* a diagnostic on a whole line
LineDiagnostic(message, value, i, line) ==
  Diagnostic(message, value, i, 0, Max(Len(line), 1))

\* pairs[char]
OpenerOf(char) == CASE char = ")" -> "(" [] char = "]" -> "[" [] char = "}" -> "{"

IsBracket(char) == IsOpener(char) \/ IsCloser(char)

\* the loop of hasUnbalancedDelimiters over a depth instead of a stack: the
\* kind of a bracket is not looked at
RECURSIVE UnbalancedDepthFrom(_, _, _)
UnbalancedDepthFrom(brackets, i, depth) ==
  IF i > Len(brackets) THEN depth > 0
  ELSE IF IsOpener(brackets[i]) THEN UnbalancedDepthFrom(brackets, i + 1, depth + 1)
  ELSE IF depth = 0 THEN TRUE
  ELSE UnbalancedDepthFrom(brackets, i + 1, depth - 1)

HasUnbalancedDepth(content) == UnbalancedDepthFrom(SelectSeq(content, IsBracket), 1, 0)

\* the loop of hasUnbalancedDelimiters from the i-th bracket character on
\* (a character that is none leaves the stack as it is)
RECURSIVE UnbalancedFrom(_, _, _)
UnbalancedFrom(brackets, i, stack) ==
  IF i > Len(brackets) THEN stack # <<>>
  ELSE IF IsOpener(brackets[i]) THEN UnbalancedFrom(brackets, i + 1, Append(stack, brackets[i]))
  ELSE IF stack = <<>> THEN TRUE
  ELSE IF stack[Len(stack)] # OpenerOf(brackets[i]) THEN TRUE
  ELSE UnbalancedFrom(brackets, i + 1, Slice(stack, 1, Len(stack) - 1))

HasUnbalancedDelimiters(content) == UnbalancedFrom(SelectSeq(content, IsBracket), 1, <<>>)

\* [A-Za-z0-9_-]
IsHeaderKeyChar(c) ==
  \/ IsDigit(c)
  \/ c \in {"_", "-"}
  \/ \E k \in 1..26 : c = UpperCase[k] \/ c = LowerCase[k]

RECURSIVE HeaderKeyRun(_)
HeaderKeyRun(s) == IF s # <<>> /\ IsHeaderKeyChar(s[1]) THEN 1 + HeaderKeyRun(Tail(s)) ELSE 0

\* line.match(/^\s*([A-Za-z0-9_-]+)\s*=/): the key, <<>> without a match
ValidatorHeaderKey(line) ==
  LET t == TrimStart(line)
      n == HeaderKeyRun(t)
      rest == TrimStart(DropFirst(t, n))
  IN IF n > 0 /\ rest # <<>> /\ rest[1] = "=" THEN Slice(t, 1, n) ELSE <<>>

\* the keys of the header lines; delimiterIndex is the position of the
\* delimiter among the lines counted from 1, 0 when there is none
HeaderKeysOf(lines, delimiterIndex) ==
  { ValidatorHeaderKey(lines[i]) : i \in 1..(delimiterIndex - 1) } \ {<<>>}

\* the diagnostics of the delimiter and of the required header keys
HeaderDiagnostics(lines) ==
  LET delimiterIndex == DelimiterIndex(lines)
      keys == HeaderKeysOf(lines, delimiterIndex)
      first == IF lines = <<>> THEN <<>> ELSE lines[1]
      missing(key) == IF key \in keys THEN <<>>
                      ELSE <<LineDiagnostic(dMissingKey, key, 0, first)>>
  IN (IF delimiterIndex = 0
      THEN <<LineDiagnostic(dMissingDelimiter, <<>>, 0, first)>> ELSE <<>>)
     \o missing(<<"f", "o", "r", "m", "a", "t">>) \o missing(<<"v", "e", "r", "s", "i", "o", "n">>)

\* trimmed.match(/^m\d+:/)
HasMeasurePrefix(trimmed) ==
  /\ trimmed # <<>>
  /\ trimmed[1] = "m"
  /\ DigitRun(Tail(trimmed)) > 0
  /\ Len(trimmed) >= DigitRun(Tail(trimmed)) + 2
  /\ trimmed[DigitRun(Tail(trimmed)) + 2] = ":"

\* line.match(/^m\d+:\s*\|(.*)\|\s*$/): [ok, content]; the content runs from
\* the pipe after the colon to the last pipe of the line
ValidatorMeasure(line) ==
  LET digits == IF line # <<>> THEN DigitRun(Tail(line)) ELSE 0
      open == Len(line) - Len(TrimStart(DropFirst(line, digits + 2))) + 1
      bars == SelectSeq([i \in 1..Len(line) |-> i], LAMBDA i : line[i] = "|")
      close == IF bars = <<>> THEN 0 ELSE bars[Len(bars)]
  IN IF /\ HasMeasurePrefix(line)
        /\ open <= Len(line)
        /\ line[open] = "|"
        /\ close > open
        /\ \A j \in (close + 1)..Len(line) : IsSpace(line[j])
     THEN [ok |-> TRUE, content |-> Slice(line, open + 1, close - 1)]
     ELSE [ok |-> FALSE, content |-> <<>>]

\* line.indexOf(token, from), counted from 0; -1 when the token is not found
IndexOfFrom(line, token, from) ==
  LET found == SelectSeq([i \in 1..Len(line) |-> i],
                         LAMBDA p : p > from /\ HasAt(line, p, token))
  IN IF found = <<>> THEN 0 - 1 ELSE found[1] - 1

\* /^\(\d+:\d+[^)]*\)$/
IsValidatorNote(token) ==
  LET string == DigitRun(Tail(token))
      afterColon == DropFirst(token, string + 2)
      fret == DigitRun(afterColon)
  IN /\ token[1] = "("
     /\ string > 0
     /\ Len(token) >= string + 2
     /\ token[string + 2] = ":"
     /\ fret > 0
     /\ token[Len(token)] = ")"
     /\ Len(token) > string + 2 + fret
     /\ \A j \in (string + 3 + fret)..(Len(token) - 1) : token[j] # ")"

DurationLetters == {"w", "h", "q", "e", "s", "t"}

\* /^(w|h|q|e|s|t)(\.|\/\d+)?$/
IsValidatorDuration(token) ==
  /\ token[1] \in DurationLetters
  /\ \/ Len(token) = 1
     \/ Len(token) = 2 /\ token[2] = "."
     \/ /\ Len(token) > 2
        /\ token[2] = "/"
        /\ DigitRun(DropFirst(token, 2)) = Len(token) - 2

\* the loop over the tokens of a measure line
RECURSIVE CheckTokens(_, _, _, _, _)
CheckTokens(tokens, line, i, searchStart, diagnostics) ==
  IF tokens = <<>> THEN diagnostics
  ELSE
    LET token == Head(tokens)
        tokenIndex == IndexOfFrom(line, token, searchStart)
        startCol == IF tokenIndex >= 0 THEN tokenIndex ELSE 0
        endCol == IF tokenIndex >= 0 THEN tokenIndex + Len(token) ELSE Len(line)
    IN CheckTokens(Tail(tokens), line, i,
                   IF tokenIndex >= 0 THEN endCol ELSE searchStart,
                   IF token[1] = "("
                   THEN IF IsValidatorNote(token) THEN diagnostics
                        ELSE Append(diagnostics,
                                    Diagnostic(dInvalidNote, token, i, startCol, endCol))
                   ELSE IF token[1] \in DurationLetters /\ ~IsValidatorDuration(token)
                   THEN Append(diagnostics,
                               Diagnostic(dInvalidDuration, token, i, startCol, endCol))
                   ELSE diagnostics)

\* the diagnostics of a line that has the measure prefix, after the one of
\* the missing track selection
MeasureDiagnostics(line, i) ==
  LET measureMatch == ValidatorMeasure(line)
      content == measureMatch.content
  IN IF ~measureMatch.ok THEN <<LineDiagnostic(dInvalidMeasure, <<>>, i, line)>>
     ELSE (IF HasUnbalancedDelimiters(content)
           THEN <<LineDiagnostic(dUnbalanced, <<>>, i, line)>> ELSE <<>>)
          \o CheckTokens(SplitWords(content), line, i, IndexOf(line, "|"), <<>>)

(***************************************************************************)
(* The validator run: validateText on a text, the body one line per step.  *)
(***************************************************************************)
BracketChars == {"(", ")", "[", "]", "{", "}"}

\* a measure line with the given bracket characters between its pipes
BracketLine(brackets) == <<"m", "1", ":", " ", "|", " ", "q", " ">> \o brackets \o <<" ", "|">>

vTrack == <<"@", "t", "r", "a", "c", "k", " ", "g", "t", "r", "1">>

\* the header with both required keys; a text without delimiter; a header
\* without the format key
ValidatorHeaders ==
  {<<<<"f", "o", "r", "m", "a", "t", "=", "\"", "o", "p", "e", "n", "t", "a", "b", "\"">>, <<"v", "e", "r", "s", "i", "o", "n", "=", "\"", "0", ".", "1", "\"">>, <<"-", "-", "-">>>>,
   <<<<"t", "i", "t", "l", "e", "=", "\"", "E", "x", "a", "m", "p", "l", "e", "\"">>>>,
   <<<<" ", "v", "e", "r", "s", "i", "o", "n", " ", "=", " ", "\"", "0", ".", "1", "\"">>, <<"m", "3", ":", " ", "|", " ", "(", " ", "|">>, <<" ", "-", "-", "-", " ">>>>}

\* hand-written body lines: the lines of the tests of the validator, lines
\* that are no measure lines, measure lines with indentation, with spaces
\* after the last pipe, with pipes and brackets inside annotation values
ValidatorLines ==
  {vTrack,
   <<"m", "1", ":", " ", "q", " ", "(", "6", ":", "3", ")">>,
   <<"m", "2", ":", " ", "|", " ", "q", " ", "(", "6", ":", "3", " ", "]", " ", "|">>,
   <<"m", "1", ":", " ", "|", " ", "q", ".", ".", " ", "(", "6", ")", " ", "e", "/", " ", "|">>,
   <<"m", "1", ":", " ", "|", " ", "q", " ", "(", "6", ":", "3", ")", " ", "e", "/", "3", " ", "[", " ", "(", "5", ":", "2", ")", " ", "(", "4", ":", "2", "h", "4", ")", " ", "]", "{", "t", "e", "x", "t", "=", "\"", "a", ")", "\"", "}", " ", "|">>,
   <<" ", " ", "m", "1", ":", " ", "|", " ", "q", " ", "(", "6", ":", "3", " ", "|">>,
   <<"m", "1", "2", ":", "|", "(", "6", ":", "3", "{", "|", "}", "|", "\t", " ">>,
   <<"m", "1", ":", " ", "|", " ", "h", ".", " ", "(", "6", ":", "3", ")", ")", " ", "|", " ", "#", " ", ")">>,
   <<"m", "x", ":", " ", "|", " ", "(", " ", "|">>,
   <<"#", " ", "(", " ", "c", "o", "m", "m", "e", "n", "t">>,
   <<"m", "2", ":", " ", "|", "|", " ", "(", "1", ":", "0", ")", " ", "s", "/", " ", "(", "1", ":", "0", ")">>,
   <<"m", "7", ":", " ", "|", " ", " ", "|">>,
   <<"m", "3", ":", " ", "|", " ", "q", " ", "[", " ", "(", "6", ":", "3", ")", "{", "a", "=", "[", "1", "]", "}", " ", "(", "5", ":", "2", ")", " ", "]", "{", "b", "=", "\"", "(", ")", "\"", "}", " ", "|">>}

ValidatorTexts(maxBrackets) ==
  {header \o body : header \in ValidatorHeaders, body \in SeqsUpTo(ValidatorLines, 2)}
    \cup {<<<<"f", "o", "r", "m", "a", "t", "=", "\"", "o", "p", "e", "n", "t", "a", "b", "\"">>, <<"v", "e", "r", "s", "i", "o", "n", "=", "\"", "0", ".", "1", "\"">>, <<"-", "-", "-">>, vTrack, BracketLine(brackets)>> :
            brackets \in SeqsUpTo(BracketChars, maxBrackets)}

ValInit ==
  /\ vtext \in ValidatorTexts(MaxBrackets)
  /\ vdiags = <<>>
  /\ vnext = 0
  /\ vsaw = FALSE
  /\ vreported = FALSE
  /\ vpc = "start"
  /\ RestIdleVal

\* validateText up to the loop over the body: the delimiter and the header
\* keys; vnext is the index i of the loop, counted from 0
CheckHeader ==
  /\ vpc = "start"
  /\ vdiags' = HeaderDiagnostics(vtext)
  /\ vnext' = IF DelimiterIndex(vtext) > 0 THEN (DelimiterIndex(vtext) - 1) + 1 ELSE 0
  /\ vpc' = "body"
  /\ UNCHANGED <<vtext, vsaw, vreported, restVal>>

\* one iteration of the loop over the body lines
CheckLine ==
  /\ vpc = "body"
  /\ vnext < Len(vtext)
  /\ \E line \in {vtext[vnext + 1]} :
       \E trimmed \in {Trim(line)} :
         \E saw \in {vsaw \/ StartsWith(trimmed, sAtTrack)} :
           /\ vsaw' = saw
           /\ vreported' = (vreported \/ (HasMeasurePrefix(trimmed) /\ ~saw))
           /\ vdiags' =
                IF HasMeasurePrefix(trimmed)
                THEN vdiags
                       \o (IF ~saw /\ ~vreported
                           THEN <<LineDiagnostic(dMissingTrack, <<>>, vnext, line)>>
                           ELSE <<>>)
                       \o MeasureDiagnostics(line, vnext)
                ELSE vdiags
  /\ vnext' = vnext + 1
  /\ UNCHANGED <<vtext, vpc, restVal>>

\* the return of validateText
ReturnDiagnostics ==
  /\ vpc = "body"
  /\ vnext >= Len(vtext)
  /\ vpc' = "returned"
  /\ UNCHANGED <<vtext, vdiags, vnext, vsaw, vreported, restVal>>

ValNext == CheckHeader \/ CheckLine \/ ReturnDiagnostics

SpecValidate == ValInit /\ [][ValNext]_vars

(***************************************************************************)
(* Properties of the validator run.                                        *)
(***************************************************************************)
\* the content between the outer pipes of a line of the form mN: | ... |
\* (m, digits, a colon, spaces, a pipe, the content, the last pipe of the
\* line, spaces); the set is empty for a line of another form
OuterContents(line) ==
  { Slice(line, q[1] + 1, q[2] - 1) :
      q \in { r \in (1..Len(line)) \X (1..Len(line)) :
                /\ line[1] = "m"
                /\ IndexOf(line, ":") > 2
                /\ \A j \in 2..(IndexOf(line, ":") - 1) : IsDigit(line[j])
                /\ r[1] > IndexOf(line, ":")
                /\ line[r[1]] = "|"
                /\ \A j \in (IndexOf(line, ":") + 1)..(r[1] - 1) : IsSpace(line[j])
                /\ r[2] > r[1]
                /\ line[r[2]] = "|"
                /\ \A j \in (r[2] + 1)..Len(line) : IsSpace(line[j]) } }

MatchedPairs == {<<"(", ")">>, <<"[", "]">>, <<"{", "}">>}

\* the bracket characters left when an opener directly followed by its
\* closer is taken out, again and again
RECURSIVE Cancelled(_)
Cancelled(brackets) ==
  IF \E i \in 1..(Len(brackets) - 1) : <<brackets[i], brackets[i + 1]>> \in MatchedPairs
  THEN LET i == CHOOSE k \in 1..(Len(brackets) - 1) :
                  <<brackets[k], brackets[k + 1]>> \in MatchedPairs
       IN Cancelled(Slice(brackets, 1, i - 1) \o DropFirst(brackets, i + 1))
  ELSE brackets

\* the brackets of a content are properly nested and matched
ProperlyNested(content) == Cancelled(SelectSeq(content, IsBracket)) = <<>>

\* the body lines the loop has been over, counted from 0
LinesChecked ==
  IF vpc \in {"body", "returned"} THEN { i \in 0..(vnext - 1) : i >= DelimiterIndex(vtext) }
  ELSE {}

UnbalancedReports(i) ==
  { d \in 1..Len(vdiags) : vdiags[d].line = i /\ vdiags[d].message = dUnbalanced }

\* C19: the validator reports "Unbalanced brackets" on a body line of the form mN: | ... | exactly when the brackets between its outer pipes are not properly nested and matched, once, and on no other line.
C19_UnbalancedExactly ==
  /\ \A i \in LinesChecked :
       /\ \A content \in OuterContents(vtext[i + 1]) :
            (UnbalancedReports(i) # {}) <=> ~ProperlyNested(content)
       /\ Cardinality(UnbalancedReports(i)) <= 1
       /\ OuterContents(vtext[i + 1]) = {} => UnbalancedReports(i) = {}
  /\ \A d \in 1..Len(vdiags) : vdiags[d].message = dUnbalanced => vdiags[d].line \in LinesChecked

\* the diagnostic was reported for brackets that close in the wrong order
\* (as many closers as openers, none before its opener)
C19_Witness ==
  /\ vpc = "returned"
  /\ \E i \in LinesChecked :
       /\ UnbalancedReports(i) # {}
       /\ \E content \in OuterContents(vtext[i + 1]) :
            SelectSeq(content, IsBracket) = <<"(", "[", ")", "]">>

\* a line with fourteen properly nested brackets of the three kinds got no
\* diagnostic
C19_NestedReached ==
  /\ vpc = "returned"
  /\ \E i \in LinesChecked :
       /\ UnbalancedReports(i) = {}
       /\ \E content \in OuterContents(vtext[i + 1]) :
            Len(SelectSeq(content, IsBracket)) = 14

(***************************************************************************)
(* The header run: parseOpenTab on a text whose header holds a             *)
(* time_signature line.                                                    *)
(***************************************************************************)
\* the largest numerator and the largest denominator of a generated
\* time_signature
MaxNumerator == 12
MaxDenominator == 33

sTimeSignatureIs == <<"t", "i", "m", "e", "_", "s", "i", "g", "n", "a", "t", "u", "r", "e", "=", "\"">>

\* the header line time_signature="n/d"
TimeSignatureLine(n, d) ==
  sTimeSignatureIs \o IntToString(n) \o <<"/">> \o IntToString(d) \o <<"\"">>

\* hand-written time_signature lines: other notations of the two numbers,
\* and values that are no pair of numbers
OtherSignatureLines ==
  {<<"t", "i", "m", "e", "_", "s", "i", "g", "n", "a", "t", "u", "r", "e", "=", "\"", "0", "4", "/", "0", "8", "\"">>,
   <<"t", "i", "m", "e", "_", "s", "i", "g", "n", "a", "t", "u", "r", "e", " ", "=", " ", "\"", "6", "/", "8", "\"", " ", " ", " ">>,
   <<"t", "i", "m", "e", "_", "s", "i", "g", "n", "a", "t", "u", "r", "e", "=", "\"", "4", "/", "4", " ", "\"">>,
   <<"t", "i", "m", "e", "_", "s", "i", "g", "n", "a", "t", "u", "r", "e", "=", "\"", " ", "3", "/", "4", "\"">>,
   <<"t", "i", "m", "e", "_", "s", "i", "g", "n", "a", "t", "u", "r", "e", "=", "\"", "-", "3", "/", "4", "\"">>,
   <<"t", "i", "m", "e", "_", "s", "i", "g", "n", "a", "t", "u", "r", "e", "=", "\"", "6", "/", "8", "/", "2", "\"">>,
   <<"t", "i", "m", "e", "_", "s", "i", "g", "n", "a", "t", "u", "r", "e", "=", "\"", "w", "a", "l", "t", "z", "\"">>,
   <<"t", "i", "m", "e", "_", "s", "i", "g", "n", "a", "t", "u", "r", "e", "=", "\"", "3", "/", "\"">>,
   <<"t", "i", "m", "e", "_", "s", "i", "g", "n", "a", "t", "u", "r", "e", "=", "4">>,
   <<"t", "i", "m", "e", "_", "s", "i", "g", "n", "a", "t", "u", "r", "e", "=", "[", "\"", "3", "\"", ",", "\"", "4", "\"", "]">>,
   <<"t", "i", "m", "e", "_", "s", "i", "g", "n", "a", "t", "u", "r", "e", "=", "t", "r", "u", "e">>,
   <<"t", "i", "m", "e", "_", "s", "i", "g", "n", "a", "t", "u", "r", "e", "=">>,
   <<"t", "e", "m", "p", "o", "_", "b", "p", "m", "=", "9", "0">>}

\* a text with the given lines after format and version, and a body of one
\* measure
HeaderText(lines) ==
  <<<<"f", "o", "r", "m", "a", "t", "=", "\"", "o", "p", "e", "n", "t", "a", "b", "\"">>, <<"v", "e", "r", "s", "i", "o", "n", "=", "\"", "0", ".", "1", "\"">>>> \o lines
    \o <<<<"-", "-", "-">>, <<"@", "t", "r", "a", "c", "k", " ", "g", "t", "r", "1">>, <<"m", "1", ":", " ", "|", " ", "q", " ", "(", "6", ":", "3", ")", " ", "|">>>>

HeaderTexts(maxNumerator, maxDenominator) ==
  {HeaderText(<<TimeSignatureLine(n, d)>>) : n \in 0..maxNumerator, d \in 0..maxDenominator}
    \cup {HeaderText(<<line>>) : line \in OtherSignatureLines}
    \cup {HeaderText(<<>>)}

HdrInit ==
  /\ htext \in HeaderTexts(MaxNumerator, MaxDenominator)
  /\ hresult = NotParsed
  /\ hpc = "start"
  /\ RestIdleHdr

\* parseOpenTab(text)
ParseHeaderText ==
  /\ hpc = "start"
  /\ hresult' = ParseOpenTab(htext)
  /\ hpc' = "parsed"
  /\ UNCHANGED <<htext, restHdr>>

HdrNext == ParseHeaderText

SpecHeader == HdrInit /\ [][HdrNext]_vars

(***************************************************************************)
(* Properties of the header run.                                           *)
(***************************************************************************)
Denominators == {1, 2, 4, 8, 16, 32}

\* C20: parseOpenTab fails for every header whose time_signature has a numerator below 1 or a denominator outside 1, 2, 4, 8, 16, 32, and the time signature of every Document it returns has a numerator of at least 1 and one of these denominators (4/4 when the key is absent).
C20_TimeSignatureChecked ==
  hpc = "parsed" =>
    /\ \A n \in 0..(MaxNumerator + 1), d \in 0..(MaxDenominator + 1) :
         (htext[3] = TimeSignatureLine(n, d) /\ (n < 1 \/ d \notin Denominators)) =>
           hresult.err # NoError
    /\ hresult.err = NoError =>
         /\ hresult.doc.header.time_signature.numerator >= 1
         /\ hresult.doc.header.time_signature.denominator \in Denominators
         /\ htext = HeaderText(<<>>) =>
              hresult.doc.header.time_signature = [numerator |-> 4, denominator |-> 4]

(***************************************************************************)
(* The text run: parseOpenTab on texts with [[tracks]] tables, with notes  *)
(* on strings inside and outside the tuning, with dotted durations and     *)
(* with chains of techniques.                                              *)
(***************************************************************************)
\* the highest string number of a generated note, the most [[tracks]]
\* tables of a generated header, the most techniques of a generated note
MaxString == 7
MaxTables == 2
MaxChain == 3

lTrackGtr1 == <<"@", "t", "r", "a", "c", "k", " ", "g", "t", "r", "1">>

\* the text with the given lines between version and delimiter and the
\* given body
TextWith(headerLines, bodyLines) ==
  <<lFormat, lVersion>> \o headerLines \o <<HEADER_DELIMITER>> \o bodyLines

\* tuning=["E2","A2",...] with n entries
TuningLine(n) ==
  <<"t", "u", "n", "i", "n", "g", "=", "[">>
    \o Join([i \in 1..n |-> <<"\"">> \o BuildDefaultTuning(n, DEFAULT_TUNING)[i] \o <<"\"">>],
            <<",">>)
    \o <<"]">>

\* the table of track gtr1; without tuning line when n = 0
GuitarTable(n) ==
  <<sTracksTable, <<"i", "d", "=", "\"", "g", "t", "r", "1", "\"">>>> \o (IF n = 0 THEN <<>> ELSE <<TuningLine(n)>>)

\* a note, and a chord whose second note is on the string
StringLines(string) ==
  {<<"m", "1", ":", " ", "|", " ", "q", " ", "(">> \o IntToString(string) \o <<":", "3", ")", " ", "|">>,
   <<"m", "1", ":", " ", "|", " ", "q", " ", "[", " ", "(", "1", ":", "0", ")", " ", "(">> \o IntToString(string) \o <<":", "2", "h", "4", ")", " ", "]", " ", "|">>}

StringTexts(maxString) ==
  {TextWith(GuitarTable(n), <<lTrackGtr1, line>>) :
     n \in 0..(maxString - 1),
     line \in UNION {StringLines(string) : string \in 0..maxString}}

\* [[tracks]] tables: gtr1 twice, in two notations, another id, a table
\* without id, with an empty id, with a number as id
TrackTables ==
  {GuitarTable(2),
   <<<<" ", " ", "[", "[", "t", "r", "a", "c", "k", "s", "]", "]", " ", " ", "#", " ", "a", "g", "a", "i", "n">>, <<"i", "d", " ", "=", " ", "\"", "g", "t", "r", "1", "\"">>, <<"n", "a", "m", "e", "=", "\"", "S", "e", "c", "o", "n", "d", "\"">>>>,
   <<sTracksTable, <<"n", "a", "m", "e", "=", "\"", "B", "a", "s", "s", "\"">>, <<"i", "d", "=", "\"", "b", "a", "s", "s", "\"">>>>,
   <<sTracksTable, <<"n", "a", "m", "e", "=", "\"", "G", "u", "i", "t", "a", "r", "\"">>>>,
   <<sTracksTable, <<"i", "d", "=", "\"", "\"">>>>,
   <<sTracksTable, <<"i", "d", "=", "7">>>>}

TrackTexts(maxTables) ==
  {TextWith(Concat(tables), <<lTrackGtr1, <<"m", "1", ":", " ", "|", " ", "q", " ", "(", "1", ":", "0", ")", " ", "|">>>>) :
     tables \in SeqsUpTo(TrackTables, maxTables)}

\* a duration token with the given number of dots
DottedToken(base, dots, tuplet) == <<base>> \o [i \in 1..dots |-> "."] \o tuplet

\* the token as the first duration of a line, and after another duration
DottedLines(token) ==
  {<<"m", "1", ":", " ", "|", " ">> \o token \o <<" ", "(", "6", ":", "3", ")", " ", "r", " ", "|">>,
   <<"m", "1", ":", " ", "|", " ", "e", " ", "(", "6", ":", "3", ")", " ">> \o token \o <<" ", "[", " ", "(", "6", ":", "3", ")", " ", "(", "5", ":", "2", ")", " ", "]", " ", "|">>}

DottedTexts(maxDots) ==
  {TextWith(<<>>, <<lTrackGtr1, line>>) :
     line \in UNION {DottedLines(DottedToken(base, dots, tuplet)) :
                       base \in DurationBases, dots \in 0..maxDots,
                       tuplet \in {<<>>, <<"/", "3">>}}}

\* one link of a chain: a vibrato, or an operator and its fret
ChainLinks == {<<"~">>} \cup {<<op>> \o fret : op \in {"h", "p", "/", "\\"},
                                              fret \in {<<"3">>, <<"1", "0">>}}

ChainTexts(maxChain) ==
  {TextWith(<<>>, <<lTrackGtr1,
                    <<"m", "1", ":", " ", "|", " ", "q", " ", "(", "2", ":">> \o first \o Concat(links) \o <<")", " ", "|">>>>) :
     first \in {<<"3">>, <<"1", "2">>}, links \in SeqsUpTo(ChainLinks, maxChain)}

ParserTexts(maxString, maxTables, maxDots, maxChain) ==
  StringTexts(maxString) \cup TrackTexts(maxTables) \cup DottedTexts(maxDots)
    \cup ChainTexts(maxChain)

TextInit ==
  /\ htext \in ParserTexts(MaxString, MaxTables, MaxDots, MaxChain)
  /\ hresult = NotParsed
  /\ hpc = "start"
  /\ RestIdleHdr

SpecText == TextInit /\ [][HdrNext]_vars

(***************************************************************************)
(* Properties of the text run.                                             *)
(***************************************************************************)
\* the events of a track in a Document
EventsOfTrack(document, id) ==
  UNION { UNION { { voice.v[e] : e \in 1..Len(voice.v) } :
                  voice \in { track.v.voices[v] : v \in 1..Len(track.v.voices) } } :
          track \in UNION { { measure.tracks[t] :
                                t \in { x \in 1..Len(measure.tracks) :
                                          measure.tracks[x].k = id } } :
                            measure \in { document.measures[m] :
                                            m \in 1..Len(document.measures) } } }

\* C21: in every Document parseOpenTab returns, the string of every note (in note events and in chords) of a track that declares a tuning lies in 1..len(tuning).
C21_StringsWithinTuning ==
  (hpc = "parsed" /\ hresult.err = NoError) =>
    \A i \in 1..Len(hresult.doc.tracks) :
      hresult.doc.tracks[i].tuning.t = "array" =>
        \A event \in EventsOfTrack(hresult.doc, hresult.doc.tracks[i].id.v) :
          \A n \in 1..Len(event.notes) :
            event.notes[n].string \in 1..Len(hresult.doc.tracks[i].tuning.items)

\* C22: in every Document parseOpenTab returns every track id is a non-empty string and no two tracks have the same id.
C22_TrackIdsUnique ==
  (hpc = "parsed" /\ hresult.err = NoError) =>
    /\ \A i \in 1..Len(hresult.doc.tracks) :
         /\ hresult.doc.tracks[i].id.t = "string"
         /\ hresult.doc.tracks[i].id.v # <<>>
    /\ \A i, j \in 1..Len(hresult.doc.tracks) :
         hresult.doc.tracks[i].id = hresult.doc.tracks[j].id => i = j

\* every [[tracks]] table of an accepted text has a line that sets a
\* non-empty id
C22_TablesHaveIds ==
  (hpc = "parsed" /\ hresult.err = NoError) =>
    \A i \in 1..Len(htext) :
      Trim(StripComment(htext[i])) = sTracksTable =>
        \E j \in (i + 1)..Len(htext) :
          /\ \A k \in (i + 1)..j : Trim(StripComment(htext[k])) # sTracksTable
          /\ MatchHeaderLine(Trim(htext[j])).ok
          /\ MatchHeaderLine(Trim(htext[j])).key = <<"i", "d">>
          /\ MatchHeaderLine(Trim(htext[j])).valueRaw # <<"\"", "\"">>

\* the lines of the run that hold a duration token with two dots
DoubleDottedLines ==
  UNION {DottedLines(DottedToken(base, 2, tuplet)) :
           base \in DurationBases, tuplet \in {<<>>, <<"/", "3">>}}

\* the events that follow the double-dotted token of the line: all events of
\* a line that starts with it, the last event of the other lines
AfterDoubleDot(events, line) ==
  IF line[7] = "e" /\ line[8] = " " THEN {events[Len(events)]}
  ELSE {events[e] : e \in 1..Len(events)}

\* C23: parseOpenTab accepts a duration token with two dots, and the events that follow it have dots = 2.
C23_DoubleDotsAccepted ==
  (hpc = "parsed" /\ htext[Len(htext)] \in DoubleDottedLines) =>
    /\ hresult.err = NoError
    /\ \A event \in AfterDoubleDot(ObjGet(ObjGet(hresult.doc.measures[1].tracks,
                                                  <<"g", "t", "r", "1">>).voices,
                                          <<"v", "1">>),
                                   htext[Len(htext)]) :
         event.duration.dots = 2

\* a technique as it is written in a note token
TechniqueText(technique) ==
  CASE technique.type = "vibrato" -> <<"~">>
    [] technique.type = "hammer_on" -> <<"h">> \o IntToString(technique.toFret)
    [] technique.type = "pull_off" -> <<"p">> \o IntToString(technique.toFret)
    [] technique.type = "slide" ->
         <<IF technique.direction = "up" THEN "/" ELSE "\\">> \o IntToString(technique.toFret)

\* a note as it is written: (S:F0 op1 F1 op2 F2 ...)
NoteText(note) ==
  <<"(">> \o IntToString(note.string) \o <<":">> \o IntToString(note.fret)
    \o Concat([k \in 1..Len(note.inlineTechniques) |-> TechniqueText(note.inlineTechniques[k])])
    \o <<")">>

\* the fret the k-th technique of a note starts from: the toFret of the
\* last fretted technique before it, the fret of the note when there is none
FretBefore(note, k) ==
  LET fretted == { j \in 1..(k - 1) : note.inlineTechniques[j].type # "vibrato" }
  IN IF fretted = {} THEN note.fret
     ELSE note.inlineTechniques[CHOOSE j \in fretted : \A i \in fretted : i <= j].toFret

\* the notes of the returned Document
NotesParsed ==
  UNION { { event.notes[n] : n \in 1..Len(event.notes) } :
          event \in EventsOfTrack(hresult.doc, <<"g", "t", "r", "1">>) }

\* C26: a note token (S:F0 op1 F1 op2 F2 ...) is stored with fret F0 and one technique per operator from left to right; every fretted technique starts from the toFret of the fretted technique before it (F0 for the first), and ~ is a vibrato entry that leaves the current fret as it is.
C26_TechniquesChained ==
  (hpc = "parsed" /\ hresult.err = NoError) =>
    /\ \A note \in NotesParsed :
         \A k \in 1..Len(note.inlineTechniques) :
           IF note.inlineTechniques[k].type = "vibrato"
           THEN note.inlineTechniques[k] = Vibrato
           ELSE note.inlineTechniques[k].fromFret = FretBefore(note, k)
    /\ \A note \in NotesParsed :
         \E p \in 1..Len(htext[Len(htext)]) : HasAt(htext[Len(htext)], p, NoteText(note))

\* a note with a hammer-on, a vibrato and a slide to another fret: the slide
\* starts from the fret the hammer-on went to
C26_Witness ==
  /\ hpc = "parsed"
  /\ hresult.err = NoError
  /\ \E note \in NotesParsed :
       /\ Len(note.inlineTechniques) = 3
       /\ note.inlineTechniques[1].type = "hammer_on"
       /\ note.inlineTechniques[2].type = "vibrato"
       /\ note.inlineTechniques[3].type = "slide"
       /\ note.inlineTechniques[3].fromFret = 10
       /\ note.inlineTechniques[3].toFret = 3
       /\ note.fret = 12

(***************************************************************************)
(* The encoders in turn: toAsciiTab, toMidi and toMusicXml called one      *)
(* after the other, in any order, each on the Document the call before it  *)
(* was given.                                                              *)
(***************************************************************************)
\* the most measures of a Document handed to the three encoders
MaxShared == 1

\* the Documents of the calls that have returned
DocumentsEncoded ==
  (IF apc = "done" THEN {adoc} ELSE {})
    \cup (IF mpc = "done" THEN {mdoc} ELSE {})
    \cup (IF xpc = "done" THEN {xdoc} ELSE {})

\* no call is under way
NoEncoderRunning ==
  /\ apc \in {"idle", "done"}
  /\ mpc \in {"idle", "done"}
  /\ xpc \in {"idle", "done"}

AsciiStart(document) ==
  /\ adoc' = document
  /\ atrack' = 1
  /\ ameasure' = 0
  /\ aout' = <<>>
  /\ apc' = "track"

MidiStart(document) ==
  /\ mdoc' = document
  /\ mtrack' = 1
  /\ mmeasure' = 1
  /\ mstart' = 0
  /\ mnotes' = <<>>
  /\ mout' = <<>>
  /\ mfile' = NoMidiFile
  /\ mpc' = "collect"

XmlStart(document) ==
  /\ xdoc' = document
  /\ xtrack' = 1
  /\ xmeasure' = 1
  /\ xpart' = <<>>
  /\ xparts' = <<>>
  /\ xpc' = "render"

\* the first call: one of the encoders on a Document
TurnInit ==
  /\ \E document \in Documents(MaxShared) :
       \/ /\ adoc = document /\ atrack = 1 /\ ameasure = 0 /\ aout = <<>> /\ apc = "track"
          /\ MidiIdle /\ XmlIdle
       \/ /\ mdoc = document /\ mtrack = 1 /\ mmeasure = 1 /\ mstart = 0 /\ mnotes = <<>>
          /\ mout = <<>> /\ mfile = NoMidiFile /\ mpc = "collect"
          /\ AsciiIdle /\ XmlIdle
       \/ /\ xdoc = document /\ xtrack = 1 /\ xmeasure = 1 /\ xpart = <<>> /\ xparts = <<>>
          /\ xpc = "render"
          /\ AsciiIdle /\ MidiIdle
  /\ FmtIdle
  /\ ParseIdle
  /\ DurIdle
  /\ ToolIdle

\* toAsciiTab(document) after another encoder has returned
CallToAsciiTab ==
  /\ NoEncoderRunning
  /\ apc = "idle"
  /\ \E document \in DocumentsEncoded : AsciiStart(document)
  /\ UNCHANGED restAscii

\* toMidi(document) after another encoder has returned
CallToMidi ==
  /\ NoEncoderRunning
  /\ mpc = "idle"
  /\ \E document \in DocumentsEncoded : MidiStart(document)
  /\ UNCHANGED <<fmtVars, parseVars, laterVars>>

\* toMusicXml(document) after another encoder has returned
CallToMusicXml ==
  /\ NoEncoderRunning
  /\ xpc = "idle"
  /\ \E document \in DocumentsEncoded : XmlStart(document)
  /\ UNCHANGED restXml

TurnNext ==
  \/ CallToAsciiTab \/ CallToMidi \/ CallToMusicXml
  \/ AsciiNext \/ MidiNext \/ XmlNext

SpecTurns == TurnInit /\ [][TurnNext]_vars

\* C24: the encoders leave the Document they are given unchanged (header, tracks, measures, and the events of every voice in their order), and every encoder called after another is given the same Document.
C24_DocumentUnchanged ==
  /\ [][/\ apc # "idle" => adoc' = adoc
        /\ mpc # "idle" => mdoc' = mdoc
        /\ xpc # "idle" => xdoc' = xdoc]_vars
  /\ [](/\ (apc # "idle" /\ mpc # "idle") => adoc = mdoc
        /\ (apc # "idle" /\ xpc # "idle") => adoc = xdoc
        /\ (mpc # "idle" /\ xpc # "idle") => mdoc = xdoc)

\* the three encoders have returned, toAsciiTab last, for a Document whose
\* first track has a tuning of several strings and a measure with events
C24_Witness ==
  /\ apc = "done"
  /\ mpc = "done"
  /\ xpc = "done"
  /\ Len(aout) > 3
  /\ mfile # NoMidiFile
  /\ Len(adoc.tracks[1].tuning.items) >= 2
  /\ adoc.tracks[1].tuning.items[1] # adoc.tracks[1].tuning.items[2]
  /\ \E t \in 1..Len(adoc.measures[1].tracks) :
       Len(adoc.measures[1].tracks[t].v.voices) >= 1

(***************************************************************************)
(* The span of a measure in toMidi.                                        *)
(***************************************************************************)
\* the voices of the entry of the track in a measure, none without an entry
VoicesOfMeasure(document, track, measure) ==
  IF ObjHas(measure.tracks, track.id.v)
  THEN ObjValues(ObjGet(measure.tracks, track.id.v).voices)
  ELSE <<>>

\* the ticks of the longest of the voices
LongestVoiceTicks(voices) ==
  MaxOf([v \in 1..Len(voices) |-> VoiceTicks(voices[v])])

\* the events of a voice before its e-th event
EventsBefore(voiceEvents, e) == Slice(voiceEvents, 1, e - 1)

\* C25: each measure of a track occupies max(expected ticks, ticks of the track's longest voice in the measure): every voice starts at the measure start (a sounding note is switched on at the measure start plus the durations before it in its voice), the next measure starts exactly that span later, so no voice ends after it and no note of the next measure starts before it.
C25_MeasureSpan ==
  [][(mpc = "collect" /\ mmeasure' = mmeasure + 1) =>
       \A voices \in {VoicesOfMeasure(mdoc, mdoc.tracks[mtrack], mdoc.measures[mmeasure])} :
         /\ mstart' = mstart + Max(ExpectedMeasureTicks(mdoc), LongestVoiceTicks(voices))
         /\ Len(mnotes') >= Len(mnotes)
         /\ SubSeq(mnotes', 1, Len(mnotes)) = mnotes
         /\ \A i \in (Len(mnotes) + 1)..Len(mnotes') :
              /\ mnotes'[i].tick >= mstart
              /\ mnotes'[i].tick <= mstart'
         /\ \A i \in 1..Len(mnotes) : mnotes[i].tick <= mstart
         /\ \A v \in 1..Len(voices) :
              /\ mstart + VoiceTicks(voices[v]) <= mstart'
              /\ \A e \in 1..Len(voices[v]) :
                   \A n \in 1..Len(voices[v][e].notes) :
                     ResolveStringPitch(mdoc.tracks[mtrack], voices[v][e].notes[n]).ok =>
                       \E i \in (Len(mnotes) + 1)..Len(mnotes') :
                         /\ mnotes'[i].type = "noteOn"
                         /\ mnotes'[i].tick = mstart + VoiceTicks(EventsBefore(voices[v], e))
                         /\ mnotes'[i].noteNumber =
                              ResolveStringPitch(mdoc.tracks[mtrack], voices[v][e].notes[n]).midi]_vars

\* the second measure of a track is reached after a first measure in which a
\* voice was longer than the expected ticks, with notes collected from two
\* voices
C25_Witness ==
  /\ mpc = "collect"
  /\ mmeasure = 2
  /\ Len(mdoc.measures) >= 2
  /\ mstart > ExpectedMeasureTicks(mdoc)
  /\ Len(VoicesOfMeasure(mdoc, mdoc.tracks[mtrack], mdoc.measures[1])) = 2
  /\ VoicesOfMeasure(mdoc, mdoc.tracks[mtrack], mdoc.measures[2]) # <<>>
  /\ Len(mnotes) >= 4

(***************************************************************************)
(* The measure starts of the tracks of one Document in toMidi.             *)
(***************************************************************************)
\* measureStart of collectNotes for the track when its loop reaches the k-th
\* measure
RECURSIVE MeasureStartOf(_, _, _, _)
MeasureStartOf(document, track, channel, k) ==
  IF k <= 1 THEN 0
  ELSE CollectMeasure(document, track, channel, document.measures[k - 1],
                      MeasureStartOf(document, track, channel, k - 1), <<>>).measureStart

\* C28: in a Document of two or more tracks the k-th measure starts at the same tick in every track.
C28_TracksBarAligned ==
  (mpc = "collect" /\ mmeasure <= Len(mdoc.measures) /\ Len(mdoc.tracks) >= 2) =>
    \A t \in 1..Len(mdoc.tracks) :
      MeasureStartOf(mdoc, mdoc.tracks[t], (t - 1) % 16, mmeasure) = mstart

(***************************************************************************)
(* The string of a note in toAsciiTab and in toMidi.                       *)
(***************************************************************************)
\* the rows pushed for the measure before ameasure
RowsPushed(stringCount) == SubSeq(aout, Len(aout) - stringCount + 1, Len(aout))

\* the position of the first "|" of a row
BarAt(row) ==
  CHOOSE p \in 1..Len(row) : row[p] = "|" /\ \A q \in 1..(p - 1) : row[q] # "|"

\* the label of a row: the text before its first "|", the padding removed
RowLabel(row) == TrimEnd(Slice(row, 1, BarAt(row) - 1))

\* the row between its first "|" and the "|" that ends it
RowContent(row) == Slice(row, BarAt(row) + 1, Len(row) - 1)

\* the row starts with a fret, not with a dash
RowStartsWithFret(row) == IsDigit(RowContent(row)[1])

\* C27: for a track with a declared tuning and a note on a string s of that tuning, the row on which toAsciiTab draws the fret is labelled tuning[s-1], the entry resolveStringPitch of toMidi takes as the open string of the note.
C27_RowLabelIsTuningEntry ==
  (apc = "measures" /\ ameasure >= 2 /\ HasTuning(adoc.tracks[atrack])) =>
    \A events \in {VoiceOne(adoc.measures[ameasure - 1], adoc.tracks[atrack])},
       tuning \in {TrackTuning(adoc.tracks[atrack])} :
      (/\ events # <<>>
       /\ events[1].type = "note"
       /\ events[1].notes[1].string \in 1..Len(tuning)) =>
         \A rows \in {RowsPushed(Len(tuning))} :
           /\ \E r \in 1..Len(rows) : RowStartsWithFret(rows[r])
           /\ \A r \in 1..Len(rows) :
                RowStartsWithFret(rows[r]) =>
                  RowLabel(rows[r]) = tuning[(events[1].notes[1].string - 1) + 1]

(***************************************************************************)
(* Import and redraw: importAsciiTab on a text, parseOpenTab on the text   *)
(* returned, toAsciiTab on the Document.                                   *)
(***************************************************************************)
\* toAsciiTab(parseOpenTab(result.otab))
RedrawImported ==
  /\ ipc = "parsed"
  /\ idoc.err = NoError
  /\ apc = "idle"
  /\ AsciiStart(idoc.doc)
  /\ UNCHANGED restAscii

RedrawNext == ImpNext \/ RedrawImported \/ AsciiNext

SpecRedraw == ImpInit /\ [][RedrawNext]_vars

\* the word occurs in the line
Occurs(word, line) == \E p \in 1..Len(line) : HasAt(line, p, word)

\* the notes scanMeasure reads from the first measure of the first block
FirstMeasureNotes ==
  IF iblocks = <<>> \/ SplitMeasures(iblocks[1].rows, <<>>).measures = <<>> THEN <<>>
  ELSE ScanMeasure(SplitMeasures(iblocks[1].rows, <<>>).measures[1],
                   StringCountOf(iblocks), <<>>).notes

\* the row of the first measure drawn i-th from the top, after the header
\* line of the track and the line `// m1`
DrawnRow(i) == aout[2 + i]

\* C30: for a block of N rows whose tuning is inferred from the row labels, a fret read from the i-th row from the top of the input is drawn on the i-th row from the top of the output of toAsciiTab.
C30_FretsKeepTheirRow ==
  (apc = "done" /\ ipc = "parsed" /\ imeta.tuning = <<>> /\ iblocks # <<>>) =>
    \A notes \in {FirstMeasureNotes}, stringCount \in {StringCountOf(iblocks)} :
      \A n \in 1..Len(notes) :
        \* string = stringCount - lineIndex, the rows counted from 0
        Occurs(Slice(notes[n].ref, 1, DigitRun(notes[n].ref)),
               RowContent(DrawnRow((stringCount - notes[n].string) + 1)))

(***************************************************************************)
(* The validator and the parser on one text.                               *)
(***************************************************************************)
\* the texts given to both
CheckedTexts(maxString, maxTables, maxDots, maxChain, maxBrackets) ==
  ParserTexts(maxString, maxTables, maxDots, maxChain) \cup ValidatorTexts(maxBrackets)

BothInit ==
  /\ vtext \in CheckedTexts(MaxString, MaxTables, MaxDots, MaxChain, MaxBrackets)
  /\ htext = vtext
  /\ vdiags = <<>>
  /\ vnext = 0
  /\ vsaw = FALSE
  /\ vreported = FALSE
  /\ vpc = "start"
  /\ hresult = NotParsed
  /\ hpc = "start"
  /\ EarlyIdle
  /\ EncoderIdle
  /\ ImpIdle

BothNext == ValNext \/ HdrNext

SpecBoth == BothInit /\ [][BothNext]_vars

\* C29: for every text parseOpenTab accepts, validateText returns an empty list of diagnostics.
C29_AcceptedTextsValidate ==
  (vpc = "returned" /\ hpc = "parsed" /\ hresult.err = NoError) => vdiags = <<>>

====
